---------------------------- MODULE Spec2Model ----------------------------
(***************************************************************************)
(* Timeline editing engine of ClipForge: the timeline store, the playback  *)
(* store, the undo manager and the pointer gestures of Timeline.svelte.    *)
(*                                                                         *)
(* Time is counted in ticks of 0.05 s, so 0.1 s is 2 ticks and 0.3 s is 6  *)
(* ticks; pointer positions are in pixels and are converted with the zoom  *)
(* factor, as the component does.  Timeline clip ids, which the component  *)
(* builds from Date.now() and Math.random(), are fresh numbers.            *)
(***************************************************************************)
EXTENDS Integers, Sequences, FiniteSets, TLC

(* ------------------------------ constants ------------------------------ *)

\* zoom = 100 pixels per second, i.e. 5 pixels per tick
zoom == 5
\* the literal 0.1 (seconds) of the trim clamps and of the split guard
MIN_CLIP_DURATION == 2
\* SNAP_THRESHOLD = 0.3 seconds
SNAP_THRESHOLD == 6
\* vertical displacement (pixels) beyond which a move changes track
TRACK_SWITCH_PX == 50
\* capacity of the undo stack
MAX_HISTORY == 50
\* floor of the displayed timeline duration: 10 seconds
MIN_TIMELINE_DURATION == 200
\* the preview seeks when it is more than 0.1 s off
SYNC_TOLERANCE == 2

(* -------------------------------- bounds ------------------------------- *)

\* number of mutating gestures explored in one behaviour; a walk back through
\* the undo history is explored MaxOps + 1 snapshots deep
MaxOps == 2
\* pointer-move events counted per gesture (the count saturates)
MaxMoves == 2

\* the imported source clips and their durations (ticks)
SourceIds == {"a", "b"}
SourceDuration == [s \in SourceIds |-> IF s = "a" THEN 8 ELSE 4]

\* pointer inputs, in pixels
DropXs == {15}
PlayheadXs == {10, 35}
ClickXs == {20}
TrimDeltaXs == {-40, 5, 40}
MovePointerDeltas ==
  {<<5, 0>>, <<30, 0>>, <<50, 0>>, <<0, 50>>, <<0, 60>>, <<0, -60>>, <<5, 60>>}
Tracks == {0, 1}

None == "none"
\* null for a timeline clip id (ids count from 1), a time and a track
NoId == 0
NoTime == -1
NoTrack == -1
NoUndo == [set |-> FALSE, n |-> 0]

(* ------------------------------- helpers ------------------------------- *)

Max(a, b) == IF a >= b THEN a ELSE b
Min(a, b) == IF a <= b THEN a ELSE b
Abs(x) == IF x < 0 THEN -x ELSE x

\* pixels / zoom
PxToTime(px) == px \div zoom

\* state.clips.filter(c => c.id !== id)
RemoveClipById(cs, id) == SelectSeq(cs, LAMBDA c : c.id # id)

\* clips.find(c => c.id === id)
HasClip(cs, id) == \E i \in 1..Len(cs) : cs[i].id = id
FindClip(cs, id) == cs[CHOOSE i \in 1..Len(cs) : cs[i].id = id /\ \A j \in 1..(i-1) : cs[j].id # id]

\* clips.reduce((max, c) => Math.max(max, c.startTime + c.duration), 0)
RECURSIVE MaxClipEnd(_)
MaxClipEnd(cs) ==
  IF cs = << >> THEN 0
  ELSE Max(MaxClipEnd(Tail(cs)), Head(cs).startTime + Head(cs).duration)

\* the animation frames that can be left scheduled with no id to cancel them
MaxLateFrames == 2

(* -------------------------------- state -------------------------------- *)

VARIABLES
  timelineStore,   \* [clips, playhead, duration]
  playbackStore,   \* [isPlaying, currentTime, selectedClipId, selectedTimelineClipId]
  clipsStore,      \* ids of the source clips in the media library
  undoStack,       \* UndoManager.undoStack, oldest first
  redoStack,       \* UndoManager.redoStack, oldest first
  drag,            \* the closure of the gesture in progress, or NoDrag
  ui,              \* component state of Timeline.svelte (previews, snap indicator)
  listeners,       \* document-level handlers that are registered
  preview,         \* component state of Preview.svelte and its <video> element
  nextId,          \* source of fresh timeline clip ids
  opCount,         \* number of mutating gestures begun
  budget,          \* number of mutating gestures explored in this behaviour
  lastOp,          \* the handler that ran last and what it returned (a release
                   \* also tells how many pointer-move events its gesture saw)
  preUndo          \* the state before the current run of n undo() calls

vars == <<timelineStore, playbackStore, clipsStore, undoStack, redoStack, drag,
          ui, listeners, preview, nextId, opCount, budget, lastOp, preUndo>>

NoDrag == [kind |-> None]

IdleUi ==
  [activeTrimClipId |-> NoId, activeTrimSide |-> None, trimPreviewOffset |-> 0,
   isDraggingClip |-> FALSE, draggedClipId |-> NoId,
   clipDragOffsetX |-> 0, clipDragOffsetY |-> 0, clipDragTargetTrack |-> NoTrack,
   isSnapping |-> FALSE, snapTargetTime |-> NoTime, isDraggingPlayhead |-> FALSE]

\* Preview.svelte's state before any clip is displayed: no <video> element
IdlePreview ==
  [bound |-> FALSE, paused |-> TRUE, currentTime |-> 0, trimStart |-> 0,
   trimEnd |-> 0, currentlyPlayingClipId |-> None, syncFrameId |-> "null",
   orphans |-> 0, framesLate |-> FALSE]

Op(name, ok) == [name |-> name, ok |-> ok]

Init ==
  /\ timelineStore = [clips |-> << >>, playhead |-> 0, duration |-> 0]
  /\ playbackStore = [isPlaying |-> FALSE, currentTime |-> 0,
                      selectedClipId |-> None, selectedTimelineClipId |-> NoId]
  /\ clipsStore = SourceIds
  /\ undoStack = << >>
  /\ redoStack = << >>
  /\ drag = NoDrag
  /\ ui = IdleUi
  /\ listeners = {}
  /\ preview = IdlePreview
  /\ nextId = 1
  /\ opCount = 0
  /\ budget = MaxOps
  /\ lastOp = Op("init", TRUE)
  /\ preUndo = NoUndo

(* ----------------------------- UndoManager ----------------------------- *)

\* JSON.stringify({clips, duration, playhead}) of the timeline store
Snapshot(ts) == [clips |-> ts.clips, duration |-> ts.duration, playhead |-> ts.playhead]

\* variant: the restore brings back the clips but not the total duration
RestoreClipsOnly(ts, snap) ==
  [ts EXCEPT !.clips = snap.clips, !.playhead = snap.playhead]

\* timelineStore.update(state => ({...state, ...restored}))
Restore(ts, snap) ==
  [ts EXCEPT !.clips = snap.clips, !.duration = snap.duration, !.playhead = snap.playhead]

\* variant: nothing is evicted
SaveStateStackUnbounded(stack, ts) == Append(stack, Snapshot(ts))

\* UndoManager.saveState: the undo stack after the push and the eviction
SaveStateStack(stack, ts) ==
  LET pushed == Append(stack, Snapshot(ts))
  IN  IF Len(pushed) > MAX_HISTORY THEN Tail(pushed) ELSE pushed

\* variant: the redo stack outlives the new snapshot
SaveStateRedoStackKept(stack) == stack

\* UndoManager.saveState: the redo stack after the push
SaveStateRedoStack(stack) == << >>

Front(s) == SubSeq(s, 1, Len(s) - 1)
Last(s) == s[Len(s)]

(* --------------------------- derived values ---------------------------- *)

\* effectiveTimelineDuration of Timeline.svelte (the video element is bound)
effectiveTimelineDuration ==
  LET withSelected ==
        IF /\ playbackStore.selectedClipId # None
           /\ playbackStore.selectedTimelineClipId = NoId
           /\ playbackStore.selectedClipId \in clipsStore
        THEN Max(timelineStore.duration, SourceDuration[playbackStore.selectedClipId])
        ELSE timelineStore.duration
  IN  Max(withSelected, MIN_TIMELINE_DURATION)

\* every handler records that it ran; anything but redo forgets the last undo
Ran(name, ok) == lastOp' = Op(name, ok) /\ preUndo' = NoUndo

NewClip(id, source, track, startTime, trimStart, trimEnd, duration) ==
  [id |-> id, clipId |-> source, track |-> track, startTime |-> startTime,
   trimStart |-> trimStart, trimEnd |-> trimEnd, duration |-> duration]

(* -------------------------------- Preview ------------------------------ *)

NoClip == NewClip(NoId, None, NoTrack, 0, 0, 0, 0)

Lowest(S) == CHOOSE i \in S : \A j \in S : i <= j

World(pv, ts, ps) ==
  [preview |-> pv, timelineStore |-> ts, playbackStore |-> ps,
   clipsStore |-> clipsStore, outcome |-> "none"]

\* variant: the clip under the playhead is looked up on both tracks
clipAtPositionAnyTrack(cs, track, time) ==
  LET hits == {i \in 1..Len(cs) : /\ time >= cs[i].startTime
                                  /\ time < cs[i].startTime + cs[i].duration}
  IN  IF hits = {} THEN NoClip ELSE cs[Lowest(hits)]

\* clips.filter(c => c.track === track).find(c => time >= c.startTime &&
\* time < c.startTime + c.duration), or NoClip
clipAtPosition(cs, track, time) ==
  LET hits == {i \in 1..Len(cs) : /\ cs[i].track = track
                                  /\ time >= cs[i].startTime
                                  /\ time < cs[i].startTime + cs[i].duration}
  IN  IF hits = {} THEN NoClip ELSE cs[Lowest(hits)]

\* activeTimelineClip: while playing the Main clip under the playhead, else
\* the selected timeline clip when it is on Main. A $derived value: it is
\* computed from the stores as they are at the moment it is read.
activeTimelineClip(ts, ps) ==
  LET clipAtPlayhead == clipAtPosition(ts.clips, 0, ps.currentTime)
      selected == IF HasClip(ts.clips, ps.selectedTimelineClipId)
                  THEN FindClip(ts.clips, ps.selectedTimelineClipId)
                  ELSE NoClip
  IN  IF Len(ts.clips) > 0 /\ ps.isPlaying /\ clipAtPlayhead # NoClip
      THEN clipAtPlayhead
      ELSE IF selected # NoClip /\ selected.track = 0 THEN selected ELSE NoClip

\* activeOverlayClip: while playing the Overlay clip under the playhead, else
\* the selected timeline clip when it is on Overlay
activeOverlayClip(ts, ps) ==
  LET overlayAtPlayhead == clipAtPosition(ts.clips, 1, ps.currentTime)
      selected == IF HasClip(ts.clips, ps.selectedTimelineClipId)
                  THEN FindClip(ts.clips, ps.selectedTimelineClipId)
                  ELSE NoClip
  IN  IF Len(ts.clips) > 0 /\ ps.isPlaying /\ overlayAtPlayhead # NoClip
      THEN overlayAtPlayhead
      ELSE IF selected # NoClip /\ selected.track = 1 THEN selected ELSE NoClip

\* variant: the source of the active clip is taken to be in the library
displayClipUnchecked(active, ps, library) ==
  IF active # NoClip
  THEN active.clipId
  ELSE IF ps.selectedClipId \in library THEN ps.selectedClipId ELSE None

\* displayClip: the library clip shown by the main <video>, or None
displayClip(active, ps, library) ==
  IF active # NoClip
  THEN IF active.clipId \in library THEN active.clipId ELSE None
  ELSE IF ps.selectedClipId \in library THEN ps.selectedClipId ELSE None

\* videoElement.currentTime = t: the element keeps the position inside its media
Seek(source, t) == Max(0, Min(t, SourceDuration[source]))

\* if (videoElement) videoElement.currentTime = t
VideoSeek(pv, t) ==
  IF pv.bound THEN [pv EXCEPT !.currentTime = Seek(pv.currentlyPlayingClipId, t)]
  ELSE pv

\* syncFrameId = requestAnimationFrame(sync): a frame is scheduled and its id
\* replaces the one held; a frame of that id that is still scheduled stays
\* scheduled and can no longer be cancelled
requestAnimationFrame(pv) ==
  [pv EXCEPT !.syncFrameId = "pending",
             !.orphans = IF pv.syncFrameId = "pending" THEN @ + 1 ELSE @]

\* stopSync(): the pending frame, if any, is cancelled
stopSync(pv) == [pv EXCEPT !.syncFrameId = "null"]

\* videoElement.pause() and, when the element was playing, the onPause
\* handler run by its pause event
VideoPause(w) ==
  IF w.preview.bound /\ ~w.preview.paused
  THEN [w EXCEPT !.preview = stopSync([@ EXCEPT !.paused = TRUE]),
                 !.playbackStore.isPlaying = FALSE]
  ELSE w

\* The template and the $effect of Preview.svelte that follow a change of the
\* stores: the <video> is rendered while there is a clip to display, the trim
\* range follows the active clip and the element is sought when its source
\* changed or its position is more than 0.1 s off. A newly rendered element
\* is paused at 0; an element given another source restarts at 0 and either
\* keeps playing or is left paused by the load (reloadPauses); a pending
\* frame that finds the element gone or paused does nothing more, and runs
\* before anything else happens unless the frames are late.
Settle(w, reloadPauses) ==
  LET pv == w.preview
      ps == w.playbackStore
      active == activeTimelineClip(w.timelineStore, ps)
      display == displayClip(active, ps, w.clipsStore)
      rendered == display # None
      reloaded == rendered /\ pv.bound /\ pv.currentlyPlayingClipId # display
      kept == rendered /\ pv.bound
      paused == IF ~kept THEN TRUE
                ELSE IF reloaded /\ reloadPauses THEN TRUE ELSE pv.paused
      position == IF kept /\ ~reloaded THEN pv.currentTime ELSE 0
      trimStart == IF active # NoClip THEN active.trimStart ELSE 0
      trimEnd == IF active # NoClip /\ active.trimEnd # 0 THEN active.trimEnd
                 ELSE IF rendered THEN SourceDuration[display] ELSE 0
      videoTime == trimStart + (ps.currentTime - active.startTime)
      currentTime ==
        IF active # NoClip /\ rendered
        THEN IF \/ pv.currentlyPlayingClipId # active.clipId
                \/ Abs(position - videoTime) > SYNC_TOLERANCE
             THEN Seek(display, videoTime)
             ELSE position
        ELSE position
      syncFrameId == IF /\ pv.syncFrameId = "pending"
                        /\ ~rendered \/ paused
                        /\ ~pv.framesLate
                     THEN "stale" ELSE pv.syncFrameId
  IN  [bound |-> rendered, paused |-> paused, currentTime |-> currentTime,
       trimStart |-> trimStart, trimEnd |-> trimEnd,
       currentlyPlayingClipId |-> display, syncFrameId |-> syncFrameId,
       orphans |-> pv.orphans, framesLate |-> pv.framesLate]

\* what a load can do to the element: nothing to one that is not playing
ReloadOutcomes(playing) == IF playing THEN BOOLEAN ELSE {FALSE}

\* the preview after a handler that left it as pv and wrote the stores
PreviewFollows(pv) ==
  \E reloadPauses \in ReloadOutcomes(pv.bound /\ ~pv.paused) :
    preview' = Settle(World(pv, timelineStore', playbackStore'), reloadPauses)

\* variant: the frame writes the position over the total duration as well
SyncPositionAsDuration(w, timelinePosition) ==
  [w EXCEPT !.playbackStore.currentTime = timelinePosition,
            !.timelineStore.playhead = timelinePosition,
            !.timelineStore.duration = timelinePosition]

\* the two store updates of a frame that plays from the timeline
SyncPosition(w, timelinePosition) ==
  [w EXCEPT !.playbackStore.currentTime = timelinePosition,
            !.timelineStore.playhead = timelinePosition]

\* sync() of startSync, run once with the element at its current position
SyncRun(w) ==
  LET pv == w.preview
      ts == w.timelineStore
      ps == w.playbackStore
      currentTime == pv.currentTime
      active == activeTimelineClip(ts, ps)
      timelinePosition == active.startTime + (currentTime - pv.trimStart)
      onTimeline == SyncPosition(w, timelinePosition)
      \* activeTimelineClip read again, after the two updates
      current == activeTimelineClip(onTimeline.timelineStore, onTimeline.playbackStore)
      nextClipStartTime == current.startTime + current.duration
      following == {i \in 1..Len(ts.clips) : /\ ts.clips[i].track = 0
                                             /\ ts.clips[i].startTime >= nextClipStartTime}
  IN  IF ~(pv.bound /\ ~pv.paused)
      THEN [w EXCEPT !.outcome = "idle"]
      ELSE IF active # NoClip
      THEN IF currentTime >= pv.trimEnd
           THEN IF current = NoClip
                \* current.startTime of null throws: the frame ends here
                THEN [onTimeline EXCEPT !.outcome = "threw"]
                ELSE IF following # {} /\ ps.isPlaying
                THEN [onTimeline EXCEPT
                        !.playbackStore.currentTime = ts.clips[Lowest(following)].startTime,
                        !.preview = requestAnimationFrame(@),
                        !.outcome = "jumped"]
                ELSE [VideoPause([onTimeline EXCEPT !.preview = stopSync(@)]) EXCEPT
                        !.playbackStore.isPlaying = FALSE,
                        !.outcome = "stopped"]
           ELSE [onTimeline EXCEPT !.preview = requestAnimationFrame(@),
                                   !.outcome = "synced"]
      ELSE [w EXCEPT
              !.playbackStore.currentTime = currentTime,
              !.timelineStore.playhead = currentTime,
              !.preview = requestAnimationFrame(
                 [@ EXCEPT !.currentTime =
                    IF /\ HasClip(ts.clips, ps.selectedTimelineClipId)
                       /\ pv.trimEnd > 0
                       /\ currentTime > pv.trimEnd
                    THEN Seek(pv.currentlyPlayingClipId, pv.trimStart)
                    ELSE @]),
              !.outcome = "library"]

\* videoElement.play() with isPlaying: true, and the onPlay handler run by the
\* play event of an element that was paused: startSync() calls sync() at once
VideoPlay(w, reloadPauses) ==
  LET started == [w EXCEPT !.preview.paused = FALSE,
                           !.playbackStore.isPlaying = TRUE]
      followed == [started EXCEPT !.preview = Settle(started, reloadPauses)]
  IN  IF w.preview.paused THEN SyncRun(followed) ELSE followed

(* -------------------------- adding to timeline ------------------------- *)

\* variant: the total duration is never below the displayed 10 s
DropUpdateFloored(ts, clip) ==
  [ts EXCEPT !.clips = Append(ts.clips, clip),
             !.duration = Max(MIN_TIMELINE_DURATION,
                              Max(ts.duration, clip.startTime + clip.duration))]

\* the timeline store after handleDrop's update
DropUpdate(ts, clip) ==
  [ts EXCEPT !.clips = Append(ts.clips, clip),
             !.duration = Max(ts.duration, clip.startTime + clip.duration)]

\* handleDrop(e, trackIndex) with a library clip as payload
handleDrop(source, trackIndex, dropX) ==
  /\ UNCHANGED budget
  /\ drag = NoDrag
  /\ opCount < budget
  /\ LET startTime == Max(0, PxToTime(dropX))
         d == SourceDuration[source]
         timelineClip == NewClip(nextId, source, trackIndex, startTime, 0, d, d)
     IN  /\ undoStack' = SaveStateStack(undoStack, timelineStore)
         /\ redoStack' = SaveStateRedoStack(redoStack)
         /\ timelineStore' = DropUpdate(timelineStore, timelineClip)
  /\ nextId' = nextId + 1
  /\ opCount' = opCount + 1
  /\ Ran("drop", TRUE)
  /\ UNCHANGED <<playbackStore, clipsStore, drag, ui, listeners>>
  /\ PreviewFollows(preview)

\* the timeline store after addToTimeline's update
AddUpdate(ts, clip) ==
  [ts EXCEPT !.clips = Append(ts.clips, clip),
             !.duration = ts.duration + clip.duration]

\* addToTimeline(clipId, 0) of the media library: appends at the end
addToTimeline(source) ==
  /\ UNCHANGED budget
  /\ drag = NoDrag
  /\ opCount < budget
  /\ source \in clipsStore
  /\ LET d == SourceDuration[source]
         timelineClip == NewClip(nextId, source, 0, timelineStore.duration, 0, d, d)
     IN  timelineStore' = AddUpdate(timelineStore, timelineClip)
  /\ nextId' = nextId + 1
  /\ opCount' = opCount + 1
  /\ Ran("add", TRUE)
  /\ UNCHANGED <<playbackStore, clipsStore, undoStack, redoStack, drag, ui,
                 listeners>>
  /\ PreviewFollows(preview)

(* ------------------------------ undo / redo ---------------------------- *)

\* keys are pressed while idle or in the middle of a trim or move gesture;
\* keys pressed while the playhead is being scrubbed are not explored
KeyboardReady == drag.kind # "playhead"

\* variant: undo takes the oldest snapshot instead of the most recent one
undoOldestFirst ==
  /\ UNCHANGED budget
  /\ KeyboardReady
  /\ IF Len(undoStack) = 0
     THEN /\ Ran("undo", FALSE)
          /\ UNCHANGED <<timelineStore, playbackStore, clipsStore, undoStack, redoStack,
                         drag, ui, listeners, nextId, opCount>>
     ELSE /\ Len(redoStack) <= MaxOps
          /\ redoStack' = Append(redoStack, Snapshot(timelineStore))
          /\ undoStack' = Tail(undoStack)
          /\ timelineStore' = Restore(timelineStore, Head(undoStack))
          /\ lastOp' = Op("undo", TRUE)
          /\ preUndo' = IF lastOp = Op("undo", TRUE) /\ preUndo.set
                         THEN [preUndo EXCEPT !.n = @ + 1]
                         ELSE [set |-> TRUE, n |-> 1, ts |-> timelineStore,
                               undo |-> undoStack, redo |-> redoStack]
          /\ UNCHANGED <<playbackStore, clipsStore, drag, ui, listeners, nextId,
                         opCount>>
  /\ PreviewFollows(preview)

\* handleKeyDown, Ctrl+Z: undoManager.undo()
undo ==
  /\ UNCHANGED budget
  /\ KeyboardReady
  /\ IF Len(undoStack) = 0
     THEN /\ Ran("undo", FALSE)
          /\ UNCHANGED <<timelineStore, playbackStore, clipsStore, undoStack, redoStack,
                         drag, ui, listeners, nextId, opCount>>
     ELSE /\ Len(redoStack) <= MaxOps
          /\ redoStack' = Append(redoStack, Snapshot(timelineStore))
          /\ undoStack' = Front(undoStack)
          /\ timelineStore' = Restore(timelineStore, Last(undoStack))
          /\ lastOp' = Op("undo", TRUE)
          /\ preUndo' = IF lastOp = Op("undo", TRUE) /\ preUndo.set
                         THEN [preUndo EXCEPT !.n = @ + 1]
                         ELSE [set |-> TRUE, n |-> 1, ts |-> timelineStore,
                               undo |-> undoStack, redo |-> redoStack]
          /\ UNCHANGED <<playbackStore, clipsStore, drag, ui, listeners, nextId,
                         opCount>>
  /\ PreviewFollows(preview)

\* variant: redo saves the current state before it looks at the redo stack
redoPushesFirst ==
  /\ UNCHANGED budget
  /\ KeyboardReady
  /\ IF Len(redoStack) = 0
     THEN /\ Ran("redo", FALSE)
          /\ undoStack' = Append(undoStack, Snapshot(timelineStore))
          /\ UNCHANGED <<timelineStore, playbackStore, clipsStore, redoStack,
                         drag, ui, listeners, nextId, opCount>>
     ELSE /\ undoStack' = Append(undoStack, Snapshot(timelineStore))
          /\ redoStack' = Front(redoStack)
          /\ timelineStore' = Restore(timelineStore, Last(redoStack))
          /\ lastOp' = Op("redo", TRUE)
          /\ preUndo' = IF lastOp = Op("undo", TRUE) /\ preUndo.n = 1
                         THEN preUndo ELSE NoUndo
          /\ UNCHANGED <<playbackStore, clipsStore, drag, ui, listeners, nextId,
                         opCount>>
  /\ PreviewFollows(preview)

\* handleKeyDown, Ctrl+Shift+Z or Ctrl+Y: undoManager.redo()
redo ==
  /\ UNCHANGED budget
  /\ KeyboardReady
  /\ IF Len(redoStack) = 0
     THEN /\ Ran("redo", FALSE)
          /\ UNCHANGED <<timelineStore, playbackStore, clipsStore, undoStack, redoStack,
                         drag, ui, listeners, nextId, opCount>>
     ELSE /\ undoStack' = Append(undoStack, Snapshot(timelineStore))
          /\ redoStack' = Front(redoStack)
          /\ timelineStore' = Restore(timelineStore, Last(redoStack))
          /\ lastOp' = Op("redo", TRUE)
          /\ preUndo' = IF lastOp = Op("undo", TRUE) /\ preUndo.n = 1
                         THEN preUndo ELSE NoUndo
          /\ UNCHANGED <<playbackStore, clipsStore, drag, ui, listeners, nextId,
                         opCount>>
  /\ PreviewFollows(preview)

(* -------------------------------- delete ------------------------------- *)

\* variant: the clip is removed but the total duration is kept
DeleteUpdateStale(ts, selectedId) ==
  LET remainingClips == RemoveClipById(ts.clips, selectedId)
  IN  [ts EXCEPT !.clips = remainingClips]

\* the timeline store after deleteSelectedTimelineClip's update
DeleteUpdate(ts, selectedId) ==
  LET remainingClips == RemoveClipById(ts.clips, selectedId)
  IN  [ts EXCEPT !.clips = remainingClips, !.duration = MaxClipEnd(remainingClips)]

\* deleteSelectedTimelineClip (Delete / Backspace key, delete-clip event)
deleteSelectedTimelineClip ==
  /\ UNCHANGED budget
  /\ KeyboardReady
  /\ LET selectedId == playbackStore.selectedTimelineClipId
     IN  IF selectedId = NoId
         THEN /\ Ran("delete", FALSE)
              /\ UNCHANGED <<timelineStore, playbackStore, clipsStore, undoStack,
                             redoStack, drag, ui, listeners, nextId, opCount>>
         ELSE /\ opCount < budget
              /\ undoStack' = SaveStateStack(undoStack, timelineStore)
              /\ redoStack' = SaveStateRedoStack(redoStack)
              /\ timelineStore' = DeleteUpdate(timelineStore, selectedId)
              /\ playbackStore' = [playbackStore EXCEPT !.selectedTimelineClipId = NoId]
              /\ opCount' = opCount + 1
              /\ Ran("delete", TRUE)
              /\ UNCHANGED <<clipsStore, drag, ui, listeners, nextId>>
  /\ PreviewFollows(preview)

(* -------------------------------- split -------------------------------- *)

\* variant: the guard accepts any playhead strictly inside the clip
SplitAcceptsNoMargin(ts, pb) ==
  /\ pb.selectedTimelineClipId # NoId
  /\ HasClip(ts.clips, pb.selectedTimelineClipId)
  /\ LET clip == FindClip(ts.clips, pb.selectedTimelineClipId)
         splitTime == pb.currentTime
         clipEnd == clip.startTime + clip.duration
     IN  ~(splitTime <= clip.startTime \/ splitTime >= clipEnd)

\* the guards of splitTimelineClip: a selected clip that is on the timeline
\* and a playhead inside it, at least 0.1 s away from both edges
SplitAccepts(ts, pb) ==
  /\ pb.selectedTimelineClipId # NoId
  /\ HasClip(ts.clips, pb.selectedTimelineClipId)
  /\ LET clip == FindClip(ts.clips, pb.selectedTimelineClipId)
         splitTime == pb.currentTime
         clipEnd == clip.startTime + clip.duration
     IN  /\ ~(splitTime <= clip.startTime \/ splitTime >= clipEnd)
         /\ ~(splitTime - clip.startTime < MIN_CLIP_DURATION
               \/ clipEnd - splitTime < MIN_CLIP_DURATION)

\* canSplit of the controls: what enables the Split button
canSplit(ts, pb) ==
  /\ pb.selectedTimelineClipId # NoId
  /\ HasClip(ts.clips, pb.selectedTimelineClipId)
  /\ LET clip == FindClip(ts.clips, pb.selectedTimelineClipId)
         playheadTime == pb.currentTime
         clipEnd == clip.startTime + clip.duration
     IN  /\ playheadTime > clip.startTime + MIN_CLIP_DURATION
         /\ playheadTime < clipEnd - MIN_CLIP_DURATION

\* variant: the left half keeps the duration of the clip that is split
SplitLeftWholeDuration(clip, splitTime, id) ==
  LET offsetInClip == splitTime - clip.startTime
  IN  NewClip(id, clip.clipId, clip.track, clip.startTime, clip.trimStart,
              clip.trimStart + offsetInClip, clip.duration)

\* clip1, the part before the split
SplitLeft(clip, splitTime, id) ==
  LET offsetInClip == splitTime - clip.startTime
  IN  NewClip(id, clip.clipId, clip.track, clip.startTime, clip.trimStart,
              clip.trimStart + offsetInClip, offsetInClip)

\* variant: the right half keeps the trimStart of the clip that is split
SplitRightFromStart(clip, splitTime, id) ==
  LET offsetInClip == splitTime - clip.startTime
  IN  NewClip(id, clip.clipId, clip.track, splitTime, clip.trimStart,
              clip.trimEnd, clip.duration - offsetInClip)

\* clip2, the part after the split
SplitRight(clip, splitTime, id) ==
  LET offsetInClip == splitTime - clip.startTime
  IN  NewClip(id, clip.clipId, clip.track, splitTime, clip.trimStart + offsetInClip,
              clip.trimEnd, clip.duration - offsetInClip)

\* the two timeline store updates of splitTimelineClip
SplitUpdate(ts, selectedId, clip1, clip2) ==
  LET otherClips == RemoveClipById(ts.clips, selectedId)
      newClips == otherClips \o <<clip1, clip2>>
  IN  [ts EXCEPT !.clips = newClips, !.duration = MaxClipEnd(newClips)]

\* variant: the left half is selected after the split
SplitSelectionLeft(ps, clip1, clip2, splitTime) ==
  [ps EXCEPT !.selectedTimelineClipId = clip1.id, !.currentTime = splitTime]

\* the playback store update that ends splitTimelineClip
SplitSelection(ps, clip1, clip2, splitTime) ==
  [ps EXCEPT !.selectedTimelineClipId = clip2.id, !.currentTime = splitTime]

\* splitTimelineClip (S key, split-clip event)
splitTimelineClip ==
  /\ UNCHANGED budget
  /\ KeyboardReady
  /\ IF ~SplitAccepts(timelineStore, playbackStore)
     THEN /\ Ran("split", FALSE)
          /\ UNCHANGED <<timelineStore, playbackStore, clipsStore, undoStack, redoStack,
                         drag, ui, listeners, nextId, opCount>>
     ELSE LET selectedId == playbackStore.selectedTimelineClipId
              splitTime == playbackStore.currentTime
              clip == FindClip(timelineStore.clips, selectedId)
              clip1 == SplitLeft(clip, splitTime, nextId)
              clip2 == SplitRight(clip, splitTime, nextId + 1)
          IN  /\ opCount < budget
              /\ undoStack' = SaveStateStack(undoStack, timelineStore)
              /\ redoStack' = SaveStateRedoStack(redoStack)
              /\ timelineStore' = SplitUpdate(timelineStore, selectedId, clip1, clip2)
              /\ playbackStore' = SplitSelection(playbackStore, clip1, clip2, splitTime)
              /\ nextId' = nextId + 2
              /\ opCount' = opCount + 1
              /\ Ran("split", TRUE)
              /\ UNCHANGED <<clipsStore, drag, ui, listeners>>
  /\ PreviewFollows(preview)

(* ----------------------------- trim gesture ---------------------------- *)

\* variant: the upper clamp forgets the 0.1 s floor
TrimStartCandidateNoFloor(startTrimValue, deltaTime, clip) ==
  Max(0, Min(startTrimValue + deltaTime, clip.trimEnd))

\* finalTrimStart of handleMouseMove, side 'start'
TrimStartCandidate(startTrimValue, deltaTime, clip) ==
  Max(0, Min(startTrimValue + deltaTime, clip.trimEnd - MIN_CLIP_DURATION))

\* variant: the new start time is not kept at or above 0
TrimStartTimeCandidateNoFloor(startTimelinePosition, deltaTime) ==
  startTimelinePosition + deltaTime

\* finalStartTime of handleMouseMove, side 'start'
TrimStartTimeCandidate(startTimelinePosition, deltaTime) ==
  Max(0, startTimelinePosition + deltaTime)

\* variant: the new trimEnd is not capped by the duration of the source
TrimEndCandidateNoCeiling(startTrimValue, deltaTime, clip, sourceDuration) ==
  Max(clip.trimStart + MIN_CLIP_DURATION, startTrimValue + deltaTime)

\* finalTrimEnd of handleMouseMove, side 'end'
TrimEndCandidate(startTrimValue, deltaTime, clip, sourceDuration) ==
  Max(clip.trimStart + MIN_CLIP_DURATION, Min(startTrimValue + deltaTime, sourceDuration))

\* startTrimDrag(e, clipId, side): mousedown on a trim handle of a rendered clip
startTrimDrag(clipId, side) ==
  /\ UNCHANGED budget
  /\ drag = NoDrag
  /\ HasClip(timelineStore.clips, clipId)
  /\ LET clip == FindClip(timelineStore.clips, clipId)
     IN  IF clip.clipId \notin clipsStore
         THEN /\ Ran("trimStart", FALSE)
              /\ UNCHANGED <<timelineStore, playbackStore, clipsStore, undoStack,
                             redoStack, drag, ui, listeners, nextId, opCount>>
         ELSE /\ opCount < budget
              /\ undoStack' = SaveStateStack(undoStack, timelineStore)
              /\ redoStack' = SaveStateRedoStack(redoStack)
              /\ ui' = [ui EXCEPT !.activeTrimClipId = clipId, !.activeTrimSide = side,
                                  !.trimPreviewOffset = 0]
              /\ drag' = [kind |-> "trim", clipId |-> clipId, side |-> side,
                          clip |-> clip, sourceDuration |-> SourceDuration[clip.clipId],
                          baseline |-> Snapshot(timelineStore),
                          startTrimValue |-> IF side = "start" THEN clip.trimStart
                                                               ELSE clip.trimEnd,
                          startTimelinePosition |-> clip.startTime,
                          finalTrimStart |-> clip.trimStart,
                          finalTrimEnd |-> clip.trimEnd,
                          finalStartTime |-> clip.startTime,
                          moves |-> 0]
              /\ listeners' = listeners \cup {"trim.mousemove", "trim.mouseup"}
              /\ opCount' = opCount + 1
              /\ Ran("trimStart", TRUE)
              /\ UNCHANGED <<timelineStore, playbackStore, clipsStore, nextId>>
  /\ PreviewFollows(preview)

\* the store update the variant below makes at every pointer-move
TrimCommitLive(ts, clipId, finalTrimStart, finalTrimEnd, finalStartTime) ==
  LET newDuration == finalTrimEnd - finalTrimStart
      Patch(c) == [c EXCEPT !.trimStart = finalTrimStart, !.trimEnd = finalTrimEnd,
                            !.startTime = finalStartTime, !.duration = newDuration]
      newClips == [i \in 1..Len(ts.clips) |->
                     IF ts.clips[i].id = clipId THEN Patch(ts.clips[i]) ELSE ts.clips[i]]
  IN  [ts EXCEPT !.clips = newClips, !.duration = MaxClipEnd(newClips)]

\* variant: every pointer-move writes the candidate values into the store
trimMouseMoveLive(deltaX) ==
  /\ UNCHANGED budget
  /\ drag.kind = "trim"
  /\ "trim.mousemove" \in listeners
  /\ LET deltaTime == PxToTime(deltaX)
         clip == drag.clip
     IN  IF drag.side = "start"
         THEN LET finalTrimStart == TrimStartCandidate(drag.startTrimValue, deltaTime, clip)
                  finalStartTime ==
                    TrimStartTimeCandidate(drag.startTimelinePosition, deltaTime)
              IN  /\ timelineStore' = TrimCommitLive(timelineStore, drag.clipId,
                                          finalTrimStart, drag.finalTrimEnd, finalStartTime)
                  /\ drag' = [drag EXCEPT !.finalTrimStart = finalTrimStart,
                                          !.finalStartTime = finalStartTime,
                                          !.moves = Min(@ + 1, MaxMoves)]
                  /\ playbackStore' = [playbackStore EXCEPT
                                         !.currentTime = finalStartTime,
                                         !.isPlaying = FALSE]
         ELSE LET finalTrimEnd == TrimEndCandidate(drag.startTrimValue, deltaTime, clip,
                                                   drag.sourceDuration)
                  endTimelinePosition == clip.startTime + (finalTrimEnd - clip.trimStart)
              IN  /\ timelineStore' = TrimCommitLive(timelineStore, drag.clipId,
                                          drag.finalTrimStart, finalTrimEnd, drag.finalStartTime)
                  /\ drag' = [drag EXCEPT !.finalTrimEnd = finalTrimEnd,
                                          !.moves = Min(@ + 1, MaxMoves)]
                  /\ playbackStore' = [playbackStore EXCEPT
                                         !.currentTime = endTimelinePosition,
                                         !.isPlaying = FALSE]
  /\ ui' = [ui EXCEPT !.trimPreviewOffset = deltaX]
  /\ Ran("trimMove", TRUE)
  /\ UNCHANGED <<clipsStore, undoStack, redoStack, listeners, nextId, opCount>>
  /\ PreviewFollows(VideoSeek(preview, IF drag.side = "start"
                                     THEN drag'.finalTrimStart
                                     ELSE drag'.finalTrimEnd))

\* startTrimDrag.handleMouseMove: document mousemove while trimming
trimMouseMove(deltaX) ==
  /\ UNCHANGED budget
  /\ drag.kind = "trim"
  /\ "trim.mousemove" \in listeners
  /\ LET deltaTime == PxToTime(deltaX)
         clip == drag.clip
     IN  IF drag.side = "start"
         THEN LET finalTrimStart == TrimStartCandidate(drag.startTrimValue, deltaTime, clip)
                  finalStartTime ==
                    TrimStartTimeCandidate(drag.startTimelinePosition, deltaTime)
              IN  /\ drag' = [drag EXCEPT !.finalTrimStart = finalTrimStart,
                                          !.finalStartTime = finalStartTime,
                                          !.moves = Min(@ + 1, MaxMoves)]
                  /\ playbackStore' = [playbackStore EXCEPT
                                         !.currentTime = finalStartTime,
                                         !.isPlaying = FALSE]
         ELSE LET finalTrimEnd == TrimEndCandidate(drag.startTrimValue, deltaTime, clip,
                                                   drag.sourceDuration)
                  endTimelinePosition == clip.startTime + (finalTrimEnd - clip.trimStart)
              IN  /\ drag' = [drag EXCEPT !.finalTrimEnd = finalTrimEnd,
                                          !.moves = Min(@ + 1, MaxMoves)]
                  /\ playbackStore' = [playbackStore EXCEPT
                                         !.currentTime = endTimelinePosition,
                                         !.isPlaying = FALSE]
  /\ ui' = [ui EXCEPT !.trimPreviewOffset = deltaX]
  /\ Ran("trimMove", TRUE)
  /\ UNCHANGED <<timelineStore, clipsStore, undoStack, redoStack, listeners, nextId,
                 opCount>>
  /\ PreviewFollows(VideoSeek(preview, IF drag.side = "start"
                                     THEN drag'.finalTrimStart
                                     ELSE drag'.finalTrimEnd))

\* variant: the clip is patched but the total duration is not recomputed
TrimCommitStale(ts, clipId, finalTrimStart, finalTrimEnd, finalStartTime) ==
  LET newDuration == finalTrimEnd - finalTrimStart
      Patch(c) == [c EXCEPT !.trimStart = finalTrimStart, !.trimEnd = finalTrimEnd,
                            !.startTime = finalStartTime, !.duration = newDuration]
  IN  [ts EXCEPT !.clips = [i \in 1..Len(ts.clips) |->
                             IF ts.clips[i].id = clipId THEN Patch(ts.clips[i])
                                                        ELSE ts.clips[i]]]

\* variant: the trim range is patched and the cached duration is left as it was
TrimCommitKeepsDuration(ts, clipId, finalTrimStart, finalTrimEnd, finalStartTime) ==
  LET Patch(c) == [c EXCEPT !.trimStart = finalTrimStart, !.trimEnd = finalTrimEnd,
                            !.startTime = finalStartTime]
      newClips == [i \in 1..Len(ts.clips) |->
                     IF ts.clips[i].id = clipId THEN Patch(ts.clips[i]) ELSE ts.clips[i]]
  IN  [ts EXCEPT !.clips = newClips, !.duration = MaxClipEnd(newClips)]

\* the two timeline store updates of startTrimDrag.handleMouseUp
TrimCommit(ts, clipId, finalTrimStart, finalTrimEnd, finalStartTime) ==
  LET newDuration == finalTrimEnd - finalTrimStart
      Patch(c) == [c EXCEPT !.trimStart = finalTrimStart, !.trimEnd = finalTrimEnd,
                            !.startTime = finalStartTime, !.duration = newDuration]
      newClips == [i \in 1..Len(ts.clips) |->
                     IF ts.clips[i].id = clipId THEN Patch(ts.clips[i]) ELSE ts.clips[i]]
  IN  [ts EXCEPT !.clips = newClips, !.duration = MaxClipEnd(newClips)]

\* startTrimDrag.handleMouseUp: document mouseup while trimming
trimMouseUp ==
  /\ UNCHANGED budget
  /\ drag.kind = "trim"
  /\ "trim.mouseup" \in listeners
  /\ listeners' = listeners \ {"trim.mousemove", "trim.mouseup"}
  /\ ui' = [ui EXCEPT !.activeTrimClipId = NoId, !.activeTrimSide = None,
                      !.trimPreviewOffset = 0]
  /\ timelineStore' = TrimCommit(timelineStore, drag.clipId, drag.finalTrimStart,
                                 drag.finalTrimEnd, drag.finalStartTime)
  /\ drag' = NoDrag
  /\ lastOp' = [name |-> "trimUp", ok |-> TRUE, moves |-> drag.moves,
                clipId |-> drag.clipId, side |-> drag.side,
                deltaX |-> ui.trimPreviewOffset]
  /\ preUndo' = NoUndo
  /\ UNCHANGED <<playbackStore, clipsStore, undoStack, redoStack, nextId, opCount>>
  /\ PreviewFollows(preview)

(* ----------------------------- move gesture ---------------------------- *)


\* variant: the track switches at the threshold, not past it
TargetTrackAtThreshold(originalTrack, deltaY) ==
  IF originalTrack = 0 /\ deltaY >= TRACK_SWITCH_PX THEN 1
  ELSE IF originalTrack = 1 /\ deltaY <= -TRACK_SWITCH_PX THEN 0
  ELSE originalTrack

\* finalTrack of handleMouseMove
TargetTrack(originalTrack, deltaY) ==
  IF originalTrack = 0 /\ deltaY > TRACK_SWITCH_PX THEN 1
  ELSE IF originalTrack = 1 /\ deltaY < -TRACK_SWITCH_PX THEN 0
  ELSE originalTrack

\* snapPoints: start and end of every other clip of the target track, in
\* store order, then the timeline start
RECURSIVE ClipSnapPoints(_, _, _)
ClipSnapPoints(cs, clipId, track) ==
  IF cs = << >> THEN << >>
  ELSE LET c == Head(cs)
           rest == ClipSnapPoints(Tail(cs), clipId, track)
       IN  IF c.id # clipId /\ c.track = track
           THEN <<c.startTime, c.startTime + c.duration>> \o rest
           ELSE rest

\* variant: the timeline start is not a snap point
SnapPointsNoOrigin(cs, clipId, track) == ClipSnapPoints(cs, clipId, track)

SnapPoints(cs, clipId, track) == ClipSnapPoints(cs, clipId, track) \o <<0>>

\* variant: among equally close snap points the last enumerated wins
RECURSIVE ClosestSnapPointLastWins(_, _, _, _)
ClosestSnapPointLastWins(points, rawStartTime, minDistance, closest) ==
  IF points = << >> THEN closest
  ELSE LET distance == Abs(rawStartTime - Head(points))
       IN  IF distance < minDistance \/ (distance = minDistance /\ closest # NoTime)
           THEN ClosestSnapPointLastWins(Tail(points), rawStartTime, distance,
                                         Head(points))
           ELSE ClosestSnapPointLastWins(Tail(points), rawStartTime, minDistance,
                                         closest)

\* the loop that looks for the closest snap point within the threshold
RECURSIVE ClosestSnapPoint(_, _, _, _)
ClosestSnapPoint(points, rawStartTime, minDistance, closest) ==
  IF points = << >> THEN closest
  ELSE LET distance == Abs(rawStartTime - Head(points))
       IN  IF distance < minDistance
           THEN ClosestSnapPoint(Tail(points), rawStartTime, distance, Head(points))
           ELSE ClosestSnapPoint(Tail(points), rawStartTime, minDistance, closest)

\* startClipDrag(e, clipId): left mousedown on the label of a rendered clip
startClipDrag(clipId) ==
  /\ UNCHANGED budget
  /\ drag = NoDrag
  /\ HasClip(timelineStore.clips, clipId)
  /\ opCount < budget
  /\ LET clip == FindClip(timelineStore.clips, clipId)
     IN  /\ undoStack' = SaveStateStack(undoStack, timelineStore)
         /\ redoStack' = SaveStateRedoStack(redoStack)
         /\ ui' = [ui EXCEPT !.isDraggingClip = TRUE, !.draggedClipId = clipId,
                             !.clipDragOffsetX = 0, !.clipDragOffsetY = 0,
                             !.clipDragTargetTrack = clip.track]
         /\ drag' = [kind |-> "move", clipId |-> clipId,
                     baseline |-> Snapshot(timelineStore),
                     originalStartTime |-> clip.startTime,
                     originalTrack |-> clip.track,
                     finalStartTime |-> clip.startTime,
                     finalTrack |-> clip.track,
                     moves |-> 0]
  /\ listeners' = listeners \cup {"move.mousemove", "move.mouseup"}
  /\ opCount' = opCount + 1
  /\ Ran("moveStart", TRUE)
  /\ UNCHANGED <<timelineStore, playbackStore, clipsStore, nextId>>
  /\ PreviewFollows(preview)

\* variant: every pointer-move takes an undo snapshot
clipMouseMoveSaving(deltaX, deltaY) ==
  /\ UNCHANGED budget
  /\ drag.kind = "move"
  /\ "move.mousemove" \in listeners
  /\ LET deltaTime == PxToTime(deltaX)
         rawStartTime == Max(0, drag.originalStartTime + deltaTime)
         finalTrack == TargetTrack(drag.originalTrack, deltaY)
         snapPoints == SnapPoints(timelineStore.clips, drag.clipId, finalTrack)
         closestSnapPoint == ClosestSnapPoint(snapPoints, rawStartTime,
                                              SNAP_THRESHOLD, NoTime)
         finalStartTime == IF closestSnapPoint # NoTime THEN closestSnapPoint
                                                      ELSE rawStartTime
     IN  /\ drag' = [drag EXCEPT !.finalStartTime = finalStartTime,
                                 !.finalTrack = finalTrack,
                                 !.moves = Min(@ + 1, MaxMoves)]
         /\ ui' = [ui EXCEPT !.clipDragOffsetX = deltaX, !.clipDragOffsetY = deltaY,
                             !.clipDragTargetTrack = finalTrack,
                             !.isSnapping = (closestSnapPoint # NoTime),
                             !.snapTargetTime = closestSnapPoint]
         /\ playbackStore' = [playbackStore EXCEPT !.currentTime = finalStartTime,
                                                   !.isPlaying = FALSE]
  /\ Ran("moveMove", TRUE)
  /\ undoStack' = SaveStateStack(undoStack, timelineStore)
  /\ redoStack' = SaveStateRedoStack(redoStack)
  /\ UNCHANGED <<timelineStore, clipsStore, listeners, nextId, opCount>>
  /\ PreviewFollows(preview)

\* startClipDrag.handleMouseMove: document mousemove while moving a clip
clipMouseMove(deltaX, deltaY) ==
  /\ UNCHANGED budget
  /\ drag.kind = "move"
  /\ "move.mousemove" \in listeners
  /\ LET deltaTime == PxToTime(deltaX)
         rawStartTime == Max(0, drag.originalStartTime + deltaTime)
         finalTrack == TargetTrack(drag.originalTrack, deltaY)
         snapPoints == SnapPoints(timelineStore.clips, drag.clipId, finalTrack)
         closestSnapPoint == ClosestSnapPoint(snapPoints, rawStartTime,
                                              SNAP_THRESHOLD, NoTime)
         finalStartTime == IF closestSnapPoint # NoTime THEN closestSnapPoint
                                                      ELSE rawStartTime
     IN  /\ drag' = [drag EXCEPT !.finalStartTime = finalStartTime,
                                 !.finalTrack = finalTrack,
                                 !.moves = Min(@ + 1, MaxMoves)]
         /\ ui' = [ui EXCEPT !.clipDragOffsetX = deltaX, !.clipDragOffsetY = deltaY,
                             !.clipDragTargetTrack = finalTrack,
                             !.isSnapping = (closestSnapPoint # NoTime),
                             !.snapTargetTime = closestSnapPoint]
         /\ playbackStore' = [playbackStore EXCEPT !.currentTime = finalStartTime,
                                                   !.isPlaying = FALSE]
  /\ Ran("moveMove", TRUE)
  /\ UNCHANGED <<timelineStore, clipsStore, undoStack, redoStack, listeners, nextId,
                 opCount>>
  /\ PreviewFollows(preview)

\* variant: a placement that overlaps another clip of the destination track
\* is refused and the clip stays where it was
MoveCommitNoOverlap(ts, clipId, finalStartTime, finalTrack) ==
  LET Patch(c) == [c EXCEPT !.startTime = finalStartTime, !.track = finalTrack]
      Overlaps(c) == \E i \in 1..Len(ts.clips) :
                       /\ ts.clips[i].id # clipId
                       /\ ts.clips[i].track = finalTrack
                       /\ ts.clips[i].startTime < finalStartTime + c.duration
                       /\ finalStartTime < ts.clips[i].startTime + ts.clips[i].duration
      newClips == [i \in 1..Len(ts.clips) |->
                     IF ts.clips[i].id = clipId /\ ~Overlaps(ts.clips[i])
                     THEN Patch(ts.clips[i]) ELSE ts.clips[i]]
  IN  [ts EXCEPT !.clips = newClips, !.duration = MaxClipEnd(newClips)]

\* the two timeline store updates of startClipDrag.handleMouseUp
MoveCommit(ts, clipId, finalStartTime, finalTrack) ==
  LET Patch(c) == [c EXCEPT !.startTime = finalStartTime, !.track = finalTrack]
      newClips == [i \in 1..Len(ts.clips) |->
                     IF ts.clips[i].id = clipId THEN Patch(ts.clips[i]) ELSE ts.clips[i]]
  IN  [ts EXCEPT !.clips = newClips, !.duration = MaxClipEnd(newClips)]

\* startClipDrag.handleMouseUp: document mouseup while moving a clip
clipMouseUp ==
  /\ UNCHANGED budget
  /\ drag.kind = "move"
  /\ "move.mouseup" \in listeners
  /\ listeners' = listeners \ {"move.mousemove", "move.mouseup"}
  /\ ui' = [ui EXCEPT !.isDraggingClip = FALSE, !.draggedClipId = NoId,
                      !.clipDragOffsetX = 0, !.clipDragOffsetY = 0,
                      !.clipDragTargetTrack = NoTrack,
                      !.isSnapping = FALSE, !.snapTargetTime = NoTime]
  /\ timelineStore' = MoveCommit(timelineStore, drag.clipId, drag.finalStartTime,
                                 drag.finalTrack)
  /\ drag' = NoDrag
  /\ lastOp' = [name |-> "moveUp", ok |-> TRUE, moves |-> drag.moves,
                clipId |-> drag.clipId,
                deltaX |-> ui.clipDragOffsetX, deltaY |-> ui.clipDragOffsetY]
  /\ preUndo' = NoUndo
  /\ UNCHANGED <<playbackStore, clipsStore, undoStack, redoStack, nextId, opCount>>
  /\ PreviewFollows(preview)

(* --------------------------- playhead, selection ----------------------- *)

\* startPlayheadDrag(e): mousedown on the playhead, shown when clips exist
startPlayheadDrag ==
  /\ UNCHANGED budget
  /\ drag = NoDrag
  /\ Len(timelineStore.clips) > 0
  /\ ui' = [ui EXCEPT !.isDraggingPlayhead = TRUE]
  /\ drag' = [kind |-> "playhead", wasPlaying |-> playbackStore.isPlaying]
  /\ UNCHANGED timelineStore
  /\ LET w0 == World(preview, timelineStore, playbackStore)
         w == IF playbackStore.isPlaying /\ preview.bound
              THEN [VideoPause(w0) EXCEPT !.playbackStore.isPlaying = FALSE]
              ELSE w0
     IN  /\ playbackStore' = w.playbackStore
         /\ PreviewFollows(w.preview)
  /\ listeners' = listeners \cup {"playhead.mousemove", "playhead.mouseup"}
  /\ Ran("playheadStart", TRUE)
  /\ UNCHANGED <<clipsStore, undoStack, redoStack, nextId, opCount>>

\* newTime of startPlayheadDrag.handleMouseMove
PlayheadDragTime(pointerX) ==
  LET x == Max(0, pointerX)
  IN  Max(0, Min(PxToTime(x), effectiveTimelineDuration))

\* startPlayheadDrag.handleMouseMove
playheadMouseMove(pointerX) ==
  /\ UNCHANGED budget
  /\ drag.kind = "playhead"
  /\ "playhead.mousemove" \in listeners
  /\ ui.isDraggingPlayhead
  /\ playbackStore' = [playbackStore EXCEPT !.currentTime = PlayheadDragTime(pointerX)]
  /\ Ran("playheadMove", TRUE)
  /\ UNCHANGED <<timelineStore, clipsStore, undoStack, redoStack, drag, ui, listeners,
                 nextId, opCount>>
  /\ LET newTime == PlayheadDragTime(pointerX)
         clip == clipAtPosition(timelineStore.clips, 0, newTime)
     IN  PreviewFollows(IF clip # NoClip
                        THEN VideoSeek(preview, clip.trimStart + (newTime - clip.startTime))
                        ELSE preview)

\* startPlayheadDrag.handleMouseUp
playheadMouseUp ==
  /\ UNCHANGED budget
  /\ drag.kind = "playhead"
  /\ "playhead.mouseup" \in listeners
  /\ ui' = [ui EXCEPT !.isDraggingPlayhead = FALSE]
  /\ listeners' = listeners \ {"playhead.mousemove", "playhead.mouseup"}
  /\ \E reloadPauses \in ReloadOutcomes(preview.bound /\ (drag.wasPlaying \/ ~preview.paused)) :
       LET w0 == World(preview, timelineStore, playbackStore)
           w == IF drag.wasPlaying /\ preview.bound
                THEN VideoPlay(w0, reloadPauses)
                ELSE w0
       IN  /\ timelineStore' = w.timelineStore
           /\ playbackStore' = w.playbackStore
           /\ preview' = Settle(w, reloadPauses)
  /\ drag' = NoDrag
  /\ Ran("playheadUp", TRUE)
  /\ UNCHANGED <<clipsStore, undoStack, redoStack, nextId, opCount>>

\* handleTimelineClick(e, trackIndex): click on an empty part of a track
handleTimelineClick(clickX) ==
  /\ UNCHANGED budget
  /\ drag = NoDrag
  /\ playbackStore' = [playbackStore EXCEPT !.currentTime = PxToTime(clickX),
                                            !.selectedTimelineClipId = NoId]
  /\ Ran("click", TRUE)
  /\ UNCHANGED <<timelineStore, clipsStore, undoStack, redoStack, drag, ui, listeners,
                 nextId, opCount>>
  /\ PreviewFollows(VideoSeek(preview, PxToTime(clickX)))

\* selectTimelineClip(clipId): click on a rendered clip
selectTimelineClip(clipId) ==
  /\ UNCHANGED budget
  /\ drag = NoDrag
  /\ HasClip(timelineStore.clips, clipId)
  /\ LET clip == FindClip(timelineStore.clips, clipId)
         selected == [playbackStore EXCEPT !.selectedTimelineClipId = clipId,
                                           !.selectedClipId = None,
                                           !.currentTime = clip.startTime,
                                           !.isPlaying = FALSE]
     IN  /\ playbackStore' = selected
         /\ \E reloadPauses \in ReloadOutcomes(preview.bound /\ ~preview.paused) :
              LET followed == Settle(World(preview, timelineStore, selected),
                                     reloadPauses)
                  \* the 100 ms timer, set when there is a video element; it
                  \* is taken to fire before the next event or frame
                  timer ==
                    IF preview.bound /\ followed.bound
                    THEN VideoSeek(
                           VideoPause(World(followed, timelineStore, selected)).preview,
                           clip.trimStart)
                    ELSE followed
              IN  preview' = Settle(World(timer, timelineStore, selected), reloadPauses)
  /\ Ran("select", TRUE)
  /\ UNCHANGED <<timelineStore, clipsStore, undoStack, redoStack, drag, ui, listeners,
                 nextId, opCount>>

(* ------------------------------ playback ------------------------------- *)

\* variant: the library selection leaves the timeline selection in place
selectClipKeepsTimeline(clipId) ==
  /\ UNCHANGED budget
  /\ drag = NoDrag
  /\ clipId \in clipsStore
  /\ playbackStore' = [playbackStore EXCEPT !.selectedClipId = clipId]
  /\ Ran("selectClip", TRUE)
  /\ UNCHANGED <<timelineStore, clipsStore, undoStack, redoStack, drag, ui, listeners,
                 nextId, opCount>>
  /\ PreviewFollows(preview)

\* selectClip(clipId) of the media library
selectClip(clipId) ==
  /\ UNCHANGED budget
  /\ drag = NoDrag
  /\ clipId \in clipsStore
  /\ playbackStore' = [playbackStore EXCEPT !.selectedClipId = clipId,
                                            !.selectedTimelineClipId = NoId]
  /\ Ran("selectClip", TRUE)
  /\ UNCHANGED <<timelineStore, clipsStore, undoStack, redoStack, drag, ui, listeners,
                 nextId, opCount>>
  /\ PreviewFollows(preview)

\* removeClip(clipId) of the media library: the timeline clips made from
\* the removed source stay on the timeline
removeClip(clipId) ==
  /\ UNCHANGED budget
  /\ drag = NoDrag
  /\ clipId \in clipsStore
  /\ clipsStore' = clipsStore \ {clipId}
  /\ playbackStore' = IF playbackStore.selectedClipId = clipId
                      THEN [playbackStore EXCEPT !.selectedClipId = None]
                      ELSE playbackStore
  /\ Ran("removeClip", TRUE)
  /\ UNCHANGED <<timelineStore, undoStack, redoStack, drag, ui, listeners, nextId,
                 opCount>>
  /\ \E reloadPauses \in ReloadOutcomes(preview.bound /\ ~preview.paused) :
       preview' = Settle([World(preview, timelineStore, playbackStore') EXCEPT
                            !.clipsStore = clipsStore'],
                         reloadPauses)

\* the frames that startSync may still leave behind in this behaviour
FramesWithinBound ==
  preview.syncFrameId # "pending" \/ preview.orphans < MaxLateFrames

\* togglePlayPause() of the controls (button or Space)
togglePlayPause ==
  /\ UNCHANGED budget
  /\ drag = NoDrag
  /\ playbackStore.isPlaying \/ FramesWithinBound
  /\ IF ~preview.bound
     THEN /\ Ran("togglePlay", FALSE)
          /\ UNCHANGED <<timelineStore, playbackStore, preview>>
     ELSE /\ \E reloadPauses \in ReloadOutcomes(TRUE) :
               LET w0 == World(preview, timelineStore, playbackStore)
                   w == IF playbackStore.isPlaying
                        THEN [VideoPause(w0) EXCEPT !.playbackStore.isPlaying = FALSE]
                        ELSE VideoPlay(w0, reloadPauses)
               IN  /\ timelineStore' = w.timelineStore
                   /\ playbackStore' = w.playbackStore
                   /\ preview' = Settle(w, reloadPauses)
          /\ Ran("togglePlay", TRUE)
  /\ UNCHANGED <<clipsStore, undoStack, redoStack, drag, ui, listeners, nextId, opCount>>

\* onPlay: the play event of the <video>, started with its own controls
onPlay ==
  /\ UNCHANGED budget
  /\ drag = NoDrag
  /\ FramesWithinBound
  /\ preview.bound
  /\ preview.paused
  /\ LET playing == [World(preview, timelineStore, playbackStore) EXCEPT
                       !.preview.paused = FALSE,
                       !.playbackStore.isPlaying = TRUE]
         w == SyncRun(playing)
     IN  /\ timelineStore' = w.timelineStore
         /\ playbackStore' = w.playbackStore
         /\ PreviewFollows(w.preview)
  /\ Ran("onPlay", TRUE)
  /\ UNCHANGED <<clipsStore, undoStack, redoStack, drag, ui, listeners, nextId, opCount>>

\* onPause: the pause event of the <video>, paused with its own controls
\* (atEnd = FALSE) or by having played to the end of its media (atEnd = TRUE)
onPause(atEnd) ==
  /\ UNCHANGED budget
  /\ preview.bound
  /\ ~preview.paused
  /\ UNCHANGED timelineStore
  /\ LET position == IF atEnd THEN SourceDuration[preview.currentlyPlayingClipId]
                     ELSE preview.currentTime
         w == VideoPause(World([preview EXCEPT !.currentTime = position],
                               timelineStore, playbackStore))
     IN  /\ playbackStore' = w.playbackStore
         /\ PreviewFollows(w.preview)
  /\ Ran("onPause", TRUE)
  /\ UNCHANGED <<clipsStore, undoStack, redoStack, drag, ui, listeners, nextId, opCount>>

\* one animation frame: sync() of startSync, after the video has played on for
\* advance ticks (it does not play past the end of its media)
sync(advance) ==
  /\ UNCHANGED budget
  /\ preview.syncFrameId = "pending"
  /\ LET currentTime == IF preview.bound /\ ~preview.paused
                        THEN Min(preview.currentTime + advance,
                                 SourceDuration[preview.currentlyPlayingClipId])
                        ELSE preview.currentTime
         w == SyncRun(World([preview EXCEPT !.currentTime = currentTime,
                                            !.syncFrameId = "stale"],
                            timelineStore, playbackStore))
     IN  /\ timelineStore' = w.timelineStore
         /\ playbackStore' = w.playbackStore
         /\ PreviewFollows(w.preview)
         /\ lastOp' = [name |-> "sync", ok |-> w.outcome # "threw",
                       outcome |-> w.outcome, sourceTime |-> currentTime]
         /\ preUndo' = NoUndo
  /\ UNCHANGED <<clipsStore, undoStack, redoStack, drag, ui, listeners, nextId, opCount>>

\* one animation frame of a loop whose id syncFrameId no longer holds
lateSync(advance) ==
  /\ UNCHANGED budget
  /\ preview.orphans > 0
  /\ LET currentTime == IF preview.bound /\ ~preview.paused
                        THEN Min(preview.currentTime + advance,
                                 SourceDuration[preview.currentlyPlayingClipId])
                        ELSE preview.currentTime
         w == SyncRun(World([preview EXCEPT !.currentTime = currentTime,
                                            !.orphans = @ - 1],
                            timelineStore, playbackStore))
     IN  /\ timelineStore' = w.timelineStore
         /\ playbackStore' = w.playbackStore
         /\ PreviewFollows(w.preview)
         /\ lastOp' = [name |-> "sync", ok |-> w.outcome # "threw",
                       outcome |-> w.outcome, sourceTime |-> currentTime]
         /\ preUndo' = NoUndo
  /\ UNCHANGED <<clipsStore, undoStack, redoStack, drag, ui, listeners, nextId, opCount>>

\* The window loses focus in the middle of a gesture and the pointer is released
\* where the document does not see it. Timeline.svelte registers no handler for
\* this: the closure and its document listeners stay as they are.
windowBlur ==
  /\ UNCHANGED budget
  /\ drag # NoDrag
  /\ Ran("blur", TRUE)
  /\ UNCHANGED <<timelineStore, playbackStore, clipsStore, undoStack, redoStack, drag,
                 ui, listeners, nextId, opCount>>
  /\ PreviewFollows(preview)

(* ----------------------------- specification --------------------------- *)

ClipIds == {timelineStore.clips[i].id : i \in 1..Len(timelineStore.clips)}

Next ==
  \/ \E s \in clipsStore, k \in Tracks, x \in DropXs : handleDrop(s, k, x)
  \/ \E s \in SourceIds : addToTimeline(s)
  \/ undo
  \/ redo
  \/ deleteSelectedTimelineClip
  \/ splitTimelineClip
  \/ \E id \in ClipIds, side \in {"start", "end"} : startTrimDrag(id, side)
  \/ \E dx \in TrimDeltaXs : trimMouseMove(dx)
  \/ trimMouseUp
  \/ \E id \in ClipIds : startClipDrag(id)
  \/ \E d \in MovePointerDeltas : clipMouseMove(d[1], d[2])
  \/ clipMouseUp
  \/ startPlayheadDrag
  \/ \E x \in PlayheadXs : playheadMouseMove(x)
  \/ playheadMouseUp
  \/ \E x \in ClickXs : handleTimelineClick(x)
  \/ \E id \in ClipIds : selectTimelineClip(id)

Spec == Init /\ [][Next]_vars

\* the timeline after addToTimeline of "a" and then of "b" on the empty
\* timeline: two adjacent clips on the main track
TwoClipsTimeline ==
  LET ts0 == [clips |-> << >>, playhead |-> 0, duration |-> 0]
      c1 == NewClip(1, "a", 0, ts0.duration, 0, SourceDuration["a"], SourceDuration["a"])
      ts1 == AddUpdate(ts0, c1)
      c2 == NewClip(2, "b", 0, ts1.duration, 0, SourceDuration["b"], SourceDuration["b"])
  IN  AddUpdate(ts1, c2)

\* editing continues from that timeline, with one gesture less to explore
InitTwoClips ==
  /\ timelineStore = TwoClipsTimeline
  /\ playbackStore = [isPlaying |-> FALSE, currentTime |-> 0,
                      selectedClipId |-> None, selectedTimelineClipId |-> NoId]
  /\ clipsStore = SourceIds
  /\ undoStack = << >>
  /\ redoStack = << >>
  /\ drag = NoDrag
  /\ ui = IdleUi
  /\ listeners = {}
  /\ preview = IdlePreview
  /\ nextId = 3
  /\ opCount = 0
  /\ budget = MaxOps - 1
  /\ lastOp = Op("add", TRUE)
  /\ preUndo = NoUndo

SpecTwoClips == InitTwoClips /\ [][Next]_vars

\* the timeline after handleDrop of "a" on the main track at the drop position
\* and then addToTimeline of "b": two adjacent clips, the first away from 0
DroppedAndAddedTimeline ==
  LET ts0 == [clips |-> << >>, playhead |-> 0, duration |-> 0]
      x == CHOOSE dropX \in DropXs : TRUE
      c1 == NewClip(1, "a", 0, Max(0, PxToTime(x)), 0, SourceDuration["a"],
                    SourceDuration["a"])
      ts1 == DropUpdate(ts0, c1)
      c2 == NewClip(2, "b", 0, ts1.duration, 0, SourceDuration["b"], SourceDuration["b"])
  IN  AddUpdate(ts1, c2)

\* editing continues from that timeline; the drop has left its snapshot
InitDroppedAndAdded ==
  /\ timelineStore = DroppedAndAddedTimeline
  /\ playbackStore = [isPlaying |-> FALSE, currentTime |-> 0,
                      selectedClipId |-> None, selectedTimelineClipId |-> NoId]
  /\ clipsStore = SourceIds
  /\ undoStack = SaveStateStack(<< >>, [clips |-> << >>, playhead |-> 0, duration |-> 0])
  /\ redoStack = << >>
  /\ drag = NoDrag
  /\ ui = IdleUi
  /\ listeners = {}
  /\ preview = IdlePreview
  /\ nextId = 3
  /\ opCount = 0
  /\ budget = MaxOps - 1
  /\ lastOp = Op("add", TRUE)
  /\ preUndo = NoUndo

SpecDroppedAndAdded == InitDroppedAndAdded /\ [][Next]_vars

\* a long editing session: "a" is dropped on the main track and then moved to
\* the right k times by the widest pointer delta, which takes it past every
\* snap point; every move takes a snapshot at its start and commits at its
\* release
WidestDeltaX ==
  CHOOSE dx \in {m[1] : m \in MovePointerDeltas} :
    \A m \in MovePointerDeltas : m[1] <= dx

TimelineAfterMoves(k) ==
  LET x == CHOOSE dropX \in DropXs : TRUE
      d == SourceDuration["a"]
      dropped == DropUpdate([clips |-> << >>, playhead |-> 0, duration |-> 0],
                            NewClip(1, "a", 0, Max(0, PxToTime(x)), 0, d, d))
  IN  IF k = 0 THEN dropped
      ELSE MoveCommit(dropped, 1,
                      FindClip(dropped.clips, 1).startTime + k * PxToTime(WidestDeltaX), 0)

\* the undo stack of that session: the snapshot of the drop, then one per move
StackAfterMoves(k) ==
  [i \in 1..(k + 1) |->
     IF i = 1 THEN Snapshot([clips |-> << >>, playhead |-> 0, duration |-> 0])
     ELSE Snapshot(TimelineAfterMoves(i - 2))]

\* the number of moves that leaves the undo stack full
LongSessions == {MAX_HISTORY - 1}

\* editing continues from the end of such a session
InitLongHistory ==
  /\ \E k \in LongSessions :
       /\ timelineStore = TimelineAfterMoves(k)
       /\ undoStack = StackAfterMoves(k)
  /\ playbackStore = [isPlaying |-> FALSE, currentTime |-> 0,
                      selectedClipId |-> None, selectedTimelineClipId |-> NoId]
  /\ clipsStore = SourceIds
  /\ redoStack = << >>
  /\ drag = NoDrag
  /\ ui = IdleUi
  /\ listeners = {}
  /\ preview = IdlePreview
  /\ nextId = 2
  /\ opCount = 0
  /\ budget = MaxOps - 1
  /\ lastOp = [name |-> "moveUp", ok |-> TRUE, moves |-> 1, clipId |-> 1,
               deltaX |-> 0, deltaY |-> 0]
  /\ preUndo = NoUndo

\* the session continues with drops, clip selection and the keyboard
NextKeysAndDrops ==
  \/ \E s \in clipsStore, k \in Tracks, x \in DropXs : handleDrop(s, k, x)
  \/ undo
  \/ redo
  \/ deleteSelectedTimelineClip
  \/ \E id \in ClipIds : selectTimelineClip(id)

SpecLongHistory == InitLongHistory /\ [][NextKeysAndDrops]_vars

\* Playback is explored from two sessions: clips a and b added back to back,
\* and clip a added and clip b dropped on Main 0.2 s after its end
SpacedDropX == 60

Advances == {1, 3}

SpacedTimeline ==
  LET ts0 == [clips |-> << >>, playhead |-> 0, duration |-> 0]
      c1 == NewClip(1, "a", 0, ts0.duration, 0, SourceDuration["a"], SourceDuration["a"])
      ts1 == AddUpdate(ts0, c1)
      c2 == NewClip(2, "b", 0, Max(0, PxToTime(SpacedDropX)), 0, SourceDuration["b"],
                    SourceDuration["b"])
  IN  [timelineStore |-> DropUpdate(ts1, c2), undoStack |-> SaveStateStack(<< >>, ts1),
       lastOp |-> Op("drop", TRUE)]

PlaybackSessions ==
  {[timelineStore |-> TwoClipsTimeline, undoStack |-> << >>, lastOp |-> Op("add", TRUE)],
   SpacedTimeline}

InitPlayback ==
  /\ \E session \in PlaybackSessions :
       /\ timelineStore = session.timelineStore
       /\ undoStack = session.undoStack
       /\ lastOp = session.lastOp
  /\ playbackStore = [isPlaying |-> FALSE, currentTime |-> 0,
                      selectedClipId |-> None, selectedTimelineClipId |-> NoId]
  /\ clipsStore = SourceIds
  /\ redoStack = << >>
  /\ drag = NoDrag
  /\ ui = IdleUi
  /\ listeners = {}
  /\ preview = IdlePreview
  /\ nextId = 3
  /\ opCount = 0
  /\ budget = MaxOps - 1
  /\ preUndo = NoUndo

\* selecting, seeking, playing, pausing, the animation frames, and a split
NextPlayback ==
  \/ \E s \in clipsStore : selectClip(s)
  \/ \E id \in ClipIds : selectTimelineClip(id)
  \/ \E x \in ClickXs : handleTimelineClick(x)
  \/ togglePlayPause
  \/ onPlay
  \/ \E atEnd \in BOOLEAN : onPause(atEnd)
  \/ \E advance \in Advances : sync(advance)
  \/ splitTimelineClip

SpecPlayback == InitPlayback /\ [][NextPlayback]_vars

\* the three pointer gestures and their abort, from the two-clip timeline
NextGestures ==
  \/ \E id \in ClipIds, side \in {"start", "end"} : startTrimDrag(id, side)
  \/ \E dx \in TrimDeltaXs : trimMouseMove(dx)
  \/ trimMouseUp
  \/ \E id \in ClipIds : startClipDrag(id)
  \/ \E d \in MovePointerDeltas : clipMouseMove(d[1], d[2])
  \/ clipMouseUp
  \/ startPlayheadDrag
  \/ \E x \in PlayheadXs : playheadMouseMove(x)
  \/ playheadMouseUp
  \/ windowBlur

SpecGestures == InitTwoClips /\ [][NextGestures]_vars

\* Splitting is explored on one clip of source a in every shape the editor
\* can give it: added with the add-to-timeline button, trimmed at its start
\* and at its end, moved along Main, then selected, with the playhead dragged
\* to any position around it. Each of the three gestures took a snapshot.
MaxStartTime == 3

TrimmedClipSession(trimStart, trimEnd, startTime) ==
  LET d == SourceDuration["a"]
      ts0 == AddUpdate([clips |-> << >>, playhead |-> 0, duration |-> 0],
                       NewClip(1, "a", 0, 0, 0, d, d))
      ts1 == TrimCommit(ts0, 1, trimStart, d, trimStart)
      ts2 == TrimCommit(ts1, 1, trimStart, trimEnd, trimStart)
      ts3 == MoveCommit(ts2, 1, startTime, 0)
  IN  [timelineStore |-> ts3,
       undoStack |-> <<Snapshot(ts0), Snapshot(ts1), Snapshot(ts2)>>]

TrimmedClipSessions ==
  LET d == SourceDuration["a"]
      trims == {r \in (0..d) \X (0..d) : r[2] - r[1] >= MIN_CLIP_DURATION}
  IN  {TrimmedClipSession(r[1], r[2], startTime) :
         r \in trims, startTime \in 0..MaxStartTime}

InitTrimmedClip ==
  /\ \E session \in TrimmedClipSessions :
       /\ timelineStore = session.timelineStore
       /\ undoStack = session.undoStack
  /\ \E t \in 0..(MaxStartTime + SourceDuration["a"] + 1) :
       playbackStore = [isPlaying |-> FALSE, currentTime |-> t,
                        selectedClipId |-> None, selectedTimelineClipId |-> 1]
  /\ clipsStore = SourceIds
  /\ redoStack = << >>
  /\ drag = NoDrag
  /\ ui = IdleUi
  /\ listeners = {}
  /\ preview = Settle(World(IdlePreview, timelineStore, playbackStore), FALSE)
  /\ nextId = 2
  /\ opCount = 0
  /\ budget = MaxOps - 1
  /\ lastOp = Op("playheadUp", TRUE)
  /\ preUndo = NoUndo

\* the S key and Ctrl+Z / Ctrl+Shift+Z
NextSplits ==
  \/ splitTimelineClip
  \/ undo
  \/ redo

SpecTrimmedClip == InitTrimmedClip /\ [][NextSplits]_vars

\* Drops are explored from the empty timeline with the pointer left of the
\* track origin, on it and right of it
WideDropXs == {-5, 0, 15, 60}

NextDrops ==
  \/ \E s \in clipsStore, k \in Tracks, x \in WideDropXs : handleDrop(s, k, x)
  \/ undo
  \/ redo

SpecDrops == Init /\ [][NextDrops]_vars

\* Playback over clips whose order in the store is not their order on the
\* timeline: clip b dropped on Main at 1 s, b dropped again at 0.6 s, then a
\* dropped at the origin; each drop took a snapshot
LateDropX == 100

ReversedTimeline ==
  LET ts0 == [clips |-> << >>, playhead |-> 0, duration |-> 0]
      b == SourceDuration["b"]
      a == SourceDuration["a"]
      ts1 == DropUpdate(ts0, NewClip(1, "b", 0, Max(0, PxToTime(LateDropX)), 0, b, b))
      ts2 == DropUpdate(ts1, NewClip(2, "b", 0, Max(0, PxToTime(SpacedDropX)), 0, b, b))
      ts3 == DropUpdate(ts2, NewClip(3, "a", 0, 0, 0, a, a))
  IN  [timelineStore |-> ts3,
       undoStack |-> <<Snapshot(ts0), Snapshot(ts1), Snapshot(ts2)>>,
       lastOp |-> Op("drop", TRUE)]

InitReversed ==
  /\ timelineStore = ReversedTimeline.timelineStore
  /\ undoStack = ReversedTimeline.undoStack
  /\ lastOp = ReversedTimeline.lastOp
  /\ playbackStore = [isPlaying |-> FALSE, currentTime |-> 0,
                      selectedClipId |-> None, selectedTimelineClipId |-> NoId]
  /\ clipsStore = SourceIds
  /\ redoStack = << >>
  /\ drag = NoDrag
  /\ ui = IdleUi
  /\ listeners = {}
  /\ preview = IdlePreview
  /\ nextId = 4
  /\ opCount = 0
  /\ budget = MaxOps - 1
  /\ preUndo = NoUndo

SpecReversed == InitReversed /\ [][NextPlayback]_vars

\* Gestures whose pointer never leaves the place where the button went down:
\* every pointer-move event reports a displacement of zero on both axes
NextZeroDelta ==
  \/ \E s \in clipsStore, k \in Tracks, x \in WideDropXs : handleDrop(s, k, x)
  \/ \E id \in ClipIds, side \in {"start", "end"} : startTrimDrag(id, side)
  \/ trimMouseMove(0)
  \/ trimMouseUp
  \/ \E id \in ClipIds : startClipDrag(id)
  \/ clipMouseMove(0, 0)
  \/ clipMouseUp
  \/ undo
  \/ redo

SpecZeroDelta == Init /\ [][NextZeroDelta]_vars

\* Trim and move gestures on the two-clip timeline, with Ctrl+Z and
\* Ctrl+Shift+Z between them: nothing but a gesture writes the playhead
NextEdits ==
  \/ \E id \in ClipIds, side \in {"start", "end"} : startTrimDrag(id, side)
  \/ \E dx \in TrimDeltaXs : trimMouseMove(dx)
  \/ trimMouseUp
  \/ \E id \in ClipIds : startClipDrag(id)
  \/ \E d \in MovePointerDeltas : clipMouseMove(d[1], d[2])
  \/ clipMouseUp
  \/ undo
  \/ redo

SpecEdits == InitTwoClips /\ [][NextEdits]_vars

\* Playback with a picture-in-picture clip: b dropped on Overlay at 0.15 s,
\* then a dropped on Main at 0, so that the Overlay clip comes first in the
\* store and lies inside the span of the Main clip
OverlayTimeline ==
  LET ts0 == [clips |-> << >>, playhead |-> 0, duration |-> 0]
      c1 == NewClip(1, "b", 1, Max(0, PxToTime(15)), 0, SourceDuration["b"],
                    SourceDuration["b"])
      ts1 == DropUpdate(ts0, c1)
      c2 == NewClip(2, "a", 0, Max(0, PxToTime(0)), 0, SourceDuration["a"],
                    SourceDuration["a"])
  IN  [timelineStore |-> DropUpdate(ts1, c2),
       undoStack |-> SaveStateStack(SaveStateStack(<< >>, ts0), ts1)]

InitOverlay ==
  /\ timelineStore = OverlayTimeline.timelineStore
  /\ undoStack = OverlayTimeline.undoStack
  /\ playbackStore = [isPlaying |-> FALSE, currentTime |-> 0,
                      selectedClipId |-> None, selectedTimelineClipId |-> NoId]
  /\ clipsStore = SourceIds
  /\ redoStack = << >>
  /\ drag = NoDrag
  /\ ui = IdleUi
  /\ listeners = {}
  /\ preview = IdlePreview
  /\ nextId = 3
  /\ opCount = 0
  /\ budget = MaxOps - 1
  /\ lastOp = Op("drop", TRUE)
  /\ preUndo = NoUndo

SpecOverlay == InitOverlay /\ [][NextPlayback]_vars

\* Sources are removed from the media library while clips made from them are
\* on the timeline; the clips are then selected and their trim handles pressed
NextRemovals ==
  \/ \E s \in SourceIds : removeClip(s)
  \/ \E s \in clipsStore : selectClip(s)
  \/ \E id \in ClipIds : selectTimelineClip(id)
  \/ \E id \in ClipIds, side \in {"start", "end"} : startTrimDrag(id, side)
  \/ trimMouseUp
  \/ undo
  \/ redo

SpecRemovals == InitOverlay /\ [][NextRemovals]_vars

\* Playback in a window whose animation frames are late (busy or hidden):
\* a scheduled frame can still be waiting when later events are handled
InitLateFrames ==
  /\ timelineStore = TwoClipsTimeline
  /\ playbackStore = [isPlaying |-> FALSE, currentTime |-> 0,
                      selectedClipId |-> None, selectedTimelineClipId |-> NoId]
  /\ clipsStore = SourceIds
  /\ undoStack = << >>
  /\ redoStack = << >>
  /\ drag = NoDrag
  /\ ui = IdleUi
  /\ listeners = {}
  /\ preview = [IdlePreview EXCEPT !.framesLate = TRUE]
  /\ nextId = 3
  /\ opCount = 0
  /\ budget = MaxOps - 1
  /\ lastOp = Op("add", TRUE)
  /\ preUndo = NoUndo

NextLateFrames ==
  \/ \E s \in clipsStore : selectClip(s)
  \/ togglePlayPause
  \/ onPlay
  \/ \E atEnd \in BOOLEAN : onPause(atEnd)
  \/ \E advance \in Advances : sync(advance)
  \/ \E advance \in Advances : lateSync(advance)

SpecLateFrames == InitLateFrames /\ [][NextLateFrames]_vars

(* ------------------------------ properties ----------------------------- *)

Clips == timelineStore.clips
ClipAt(i) == timelineStore.clips[i]
SelectedId == playbackStore.selectedTimelineClipId

\* the invariants of one timeline clip
ValidClip(c) ==
  /\ 0 <= c.trimStart
  /\ c.trimStart < c.trimEnd
  /\ c.trimEnd <= SourceDuration[c.clipId]
  /\ c.trimEnd - c.trimStart >= MIN_CLIP_DURATION
  /\ c.startTime >= 0

C2_TotalDuration == timelineStore.duration = MaxClipEnd(Clips)

\* a trim was committed that made the timeline shorter than it was at drag start
C2_Witness ==
  /\ lastOp.name = "trimUp"
  /\ Len(undoStack) > 0
  /\ timelineStore.duration < Last(undoStack).duration
  /\ Len(Clips) > 0

\* what a successful undo() does to the stacks and to the timeline
UndoStep ==
  /\ Len(undoStack) > 0
  /\ undoStack' = Front(undoStack)
  /\ redoStack' = Append(redoStack, Snapshot(timelineStore))
  /\ Snapshot(timelineStore') = Last(undoStack)

\* what a successful redo() does: the mirror of UndoStep
RedoStep ==
  /\ Len(redoStack) > 0
  /\ redoStack' = Front(redoStack)
  /\ undoStack' = Append(undoStack, Snapshot(timelineStore))
  /\ Snapshot(timelineStore') = Last(redoStack)

\* after n undos in a row the timeline is the n-th most recent snapshot of
\* the stack the run started with, and the older snapshots are still stacked
LifoOrder ==
  (lastOp = Op("undo", TRUE) /\ preUndo.set) =>
     LET k == Len(preUndo.undo) - preUndo.n + 1
     IN  /\ k >= 1
         /\ Snapshot(timelineStore) = preUndo.undo[k]
         /\ undoStack = SubSeq(preUndo.undo, 1, k - 1)
         /\ Len(redoStack) = Len(preUndo.redo) + preUndo.n

C4_UndoRedoRoundTrip ==
  (lastOp = Op("redo", TRUE) /\ preUndo.set) =>
     /\ timelineStore.clips = preUndo.ts.clips
     /\ timelineStore.duration = preUndo.ts.duration
     /\ undoStack = preUndo.undo
     /\ redoStack = preUndo.redo

\* an undo that changed the clips and the duration, taken with a redo stack
\* that was not empty, was redone at once
C4_Witness ==
  /\ lastOp = Op("redo", TRUE)
  /\ preUndo.set
  /\ Len(preUndo.redo) > 0
  /\ Last(preUndo.undo).clips # preUndo.ts.clips
  /\ Last(preUndo.undo).duration # preUndo.ts.duration
  /\ Len(Clips) > 0

\* C5: a split of the selected clip C at playhead time t replaces C by exactly
\* two clips with new ids that inherit C's source clip and track: the left one
\* with C's startTime and trimStart and trimEnd = C.trimStart + (t - C.startTime),
\* the right one with startTime t, trimStart = C.trimStart + (t - C.startTime)
\* and C's trimEnd; every other clip is unchanged.
C5_SplitHalves ==
  [][ lastOp' = Op("split", TRUE) =>
        /\ HasClip(Clips, SelectedId)
        /\ LET C == FindClip(Clips, SelectedId)
               t == playbackStore.currentTime
               offset == t - C.startTime
               new == {j \in 1..Len(Clips') : Clips'[j].id \notin ClipIds}
           IN  /\ ~HasClip(Clips', C.id)
               /\ Len(Clips') = Len(Clips) + 1
               /\ Cardinality(new) = 2
               /\ \E l \in new, r \in new :
                    /\ Clips'[l].id # Clips'[r].id
                    /\ Clips'[l].clipId = C.clipId /\ Clips'[l].track = C.track
                    /\ Clips'[l].startTime = C.startTime
                    /\ Clips'[l].trimStart = C.trimStart
                    /\ Clips'[l].trimEnd = C.trimStart + offset
                    /\ Clips'[r].clipId = C.clipId /\ Clips'[r].track = C.track
                    /\ Clips'[r].startTime = t
                    /\ Clips'[r].trimStart = C.trimStart + offset
                    /\ Clips'[r].trimEnd = C.trimEnd
               /\ \A i \in 1..Len(Clips) :
                    ClipAt(i).id # C.id => \E j \in 1..Len(Clips') : Clips'[j] = ClipAt(i)
    ]_vars

\* a clip was split while another clip, of another source, was on the timeline
C5_Witness ==
  /\ lastOp = Op("split", TRUE)
  /\ Len(Clips) = 3
  /\ \E i \in 1..3, l \in 1..3, r \in 1..3 :
       /\ ClipAt(l).clipId = ClipAt(r).clipId
       /\ ClipAt(i).clipId # ClipAt(l).clipId
       /\ ClipAt(r).id = SelectedId
       /\ ClipAt(l).id # ClipAt(r).id
       /\ ClipAt(l).trimEnd = ClipAt(r).trimStart
       /\ ClipAt(r).startTime = playbackStore.currentTime
       /\ ClipAt(l).trimStart < ClipAt(l).trimEnd

\* the precondition of split: a selected clip that is on the timeline, and a
\* playhead inside its span at least MIN_CLIP_DURATION away from both edges
SplitPrecondition ==
  /\ SelectedId # NoId
  /\ \E i \in 1..Len(Clips) :
       /\ ClipAt(i).id = SelectedId
       /\ playbackStore.currentTime >= ClipAt(i).startTime + MIN_CLIP_DURATION
       /\ playbackStore.currentTime
            <= ClipAt(i).startTime + ClipAt(i).duration - MIN_CLIP_DURATION

\* C6: split is a no-op (no undo snapshot pushed, redo stack kept, clips,
\* selection and playhead unchanged) whenever no timeline clip is selected, the
\* selected id is not in the timeline, or the playhead is not inside the
\* selected clip's span with a margin of MIN_CLIP_DURATION from both edges.
C6_SplitRejects ==
  [][ (lastOp'.name = "split" /\ ~SplitPrecondition) =>
        /\ ~lastOp'.ok
        /\ UNCHANGED <<timelineStore, playbackStore, undoStack, redoStack>>
    ]_vars

\* a split was rejected with the playhead strictly inside the selected clip but
\* closer than the margin to its end, while the redo stack held a snapshot
C6_Witness ==
  /\ lastOp = Op("split", FALSE)
  /\ Len(redoStack) > 0
  /\ HasClip(Clips, SelectedId)
  /\ LET C == FindClip(Clips, SelectedId)
     IN  /\ playbackStore.currentTime > C.startTime
         /\ playbackStore.currentTime < C.startTime + C.duration
         /\ C.startTime + C.duration - playbackStore.currentTime < MIN_CLIP_DURATION

Clamp(x, lo, hi) == Max(lo, Min(x, hi))

\* a step that releases a trim of the given side on a clip that is on the timeline
TrimRelease(side) ==
  /\ lastOp'.name = "trimUp"
  /\ lastOp'.side = side
  /\ HasClip(Clips, drag.clipId)

\* C7: a start-trim gesture with total pointer displacement dt commits
\* trimStart = clamp(baseline.trimStart + dt, 0, baseline.trimEnd - MIN_CLIP_DURATION)
\* and startTime = max(0, baseline.startTime + dt), the baseline being the clip
\* captured at drag start; trimEnd is the baseline's.
C7_StartTrimCommit ==
  [][ TrimRelease("start") =>
        /\ HasClip(Clips', drag.clipId)
        /\ LET baseline == drag.clip
               dt == PxToTime(ui.trimPreviewOffset)
               c == FindClip(Clips', drag.clipId)
           IN  /\ c.trimStart = Clamp(baseline.trimStart + dt, 0,
                                      baseline.trimEnd - MIN_CLIP_DURATION)
               /\ c.startTime = Max(0, baseline.startTime + dt)
               /\ c.trimEnd = baseline.trimEnd
    ]_vars

\* a start-trim was released after a drag to the right that went past the
\* minimum clip duration, or after a drag to the left that went past time 0
C7_Witness ==
  /\ lastOp.name = "trimUp"
  /\ lastOp.side = "start"
  /\ lastOp.moves > 0
  /\ HasClip(Clips, lastOp.clipId)
  /\ LET c == FindClip(Clips, lastOp.clipId)
     IN  \/ /\ lastOp.deltaX > 0
            /\ c.trimStart = c.trimEnd - MIN_CLIP_DURATION
            /\ c.trimStart < PxToTime(lastOp.deltaX)
         \/ /\ lastOp.deltaX < 0
            /\ c.trimStart = 0
            /\ c.startTime = 0

\* C8: an end-trim gesture with total pointer displacement dt commits
\* trimEnd = clamp(baseline.trimEnd + dt, baseline.trimStart + MIN_CLIP_DURATION,
\* duration of the source clip), never more than the source duration; trimStart
\* and startTime are the baseline's.
C8_EndTrimCommit ==
  [][ TrimRelease("end") =>
        /\ HasClip(Clips', drag.clipId)
        /\ LET baseline == drag.clip
               dt == PxToTime(ui.trimPreviewOffset)
               c == FindClip(Clips', drag.clipId)
           IN  /\ c.trimEnd = Clamp(baseline.trimEnd + dt,
                                    baseline.trimStart + MIN_CLIP_DURATION,
                                    SourceDuration[baseline.clipId])
               /\ c.trimEnd <= SourceDuration[c.clipId]
               /\ c.trimStart = baseline.trimStart
               /\ c.startTime = baseline.startTime
    ]_vars

\* an end-trim was released after a drag to the right on a clip whose trimEnd
\* was at the source duration: trimEnd stays at the source duration
C8_Witness ==
  /\ lastOp.name = "trimUp"
  /\ lastOp.side = "end"
  /\ lastOp.moves > 0
  /\ lastOp.deltaX > 0
  /\ HasClip(Clips, lastOp.clipId)
  /\ LET c == FindClip(Clips, lastOp.clipId)
     IN  /\ c.trimEnd = SourceDuration[c.clipId]
         /\ c.duration = SourceDuration[c.clipId]
         /\ c.trimStart = 0

GestureStart == lastOp' \in {Op("trimStart", TRUE), Op("moveStart", TRUE)}

\* C10: a trim or move gesture takes one undo snapshot, of the timeline as it
\* is at drag start, and changes the timeline only at pointer release, which
\* ends the gesture; pointer-move events change neither the undo stack nor the
\* timeline, however many there are, and the release takes no snapshot.
C10_OneSnapshotOneCommit ==
  [][ /\ GestureStart =>
           /\ undoStack' = SaveStateStack(undoStack, timelineStore)
           /\ Last(undoStack') = Snapshot(timelineStore)
           /\ timelineStore' = timelineStore
           /\ drag = NoDrag /\ drag'.moves = 0
      /\ lastOp'.name \in {"trimMove", "moveMove"} =>
           /\ UNCHANGED <<undoStack, redoStack, timelineStore>>
           /\ drag'.kind = drag.kind
      /\ lastOp'.name \in {"trimUp", "moveUp"} =>
           /\ UNCHANGED <<undoStack, redoStack>>
           /\ drag.kind \in {"trim", "move"}
           /\ drag' = NoDrag
           /\ listeners' \cap {"trim.mousemove", "trim.mouseup",
                               "move.mousemove", "move.mouseup"} = {}
    ]_vars

\* a gesture with several pointer-move events was released: its commit changed
\* the timeline and the undo stack holds the one snapshot of its start on top
\* of the snapshot of the drop
C10_Witness ==
  /\ lastOp.name \in {"trimUp", "moveUp"}
  /\ lastOp.moves >= 2
  /\ Len(undoStack) = 2
  /\ Len(Last(undoStack).clips) = 1
  /\ Last(undoStack).clips # Clips
  /\ Len(Clips) = 1

\* the points a move can snap to: the timeline start and the start and the end
\* of every clip of the given track other than the dragged one
SnapTargets(clipId, track) ==
  {0} \cup {ClipAt(i).startTime : i \in {k \in 1..Len(Clips) :
                ClipAt(k).id # clipId /\ ClipAt(k).track = track}}
      \cup {ClipAt(i).startTime + ClipAt(i).duration : i \in {k \in 1..Len(Clips) :
                ClipAt(k).id # clipId /\ ClipAt(k).track = track}}

\* C11: at every pointer-move of a move gesture the candidate startTime
\* r = max(0, original startTime + dx / zoom) is replaced by the nearest of
\* {0, start of every other clip, end of every other clip} on the candidate
\* track if that point is less than SNAP_THRESHOLD away from r, and stays r
\* otherwise; the dragged clip and the clips of the other track are no snap
\* targets; the release commits the candidate.
C11_SnapToNearest ==
  [][ /\ lastOp'.name = "moveMove" =>
           LET r == Max(0, drag.originalStartTime + PxToTime(ui'.clipDragOffsetX))
               P == SnapTargets(drag.clipId, drag'.finalTrack)
               near == {p \in P : Abs(r - p) < SNAP_THRESHOLD}
               chosen == drag'.finalStartTime
           IN  IF near = {}
               THEN chosen = r
               ELSE /\ chosen \in near
                    /\ \A q \in P : Abs(r - chosen) <= Abs(r - q)
      /\ (lastOp'.name = "moveUp" /\ HasClip(Clips, drag.clipId)) =>
           /\ HasClip(Clips', drag.clipId)
           /\ FindClip(Clips', drag.clipId).startTime = drag.finalStartTime
    ]_vars

\* a dragged clip was released on the end of another clip of its track, one
\* tick away from where the pointer had taken it
C11_Witness ==
  /\ lastOp.name = "moveUp"
  /\ lastOp.deltaY = 0
  /\ lastOp.deltaX # 0
  /\ HasClip(Clips, lastOp.clipId)
  /\ LET c == FindClip(Clips, lastOp.clipId)
     IN  /\ c.startTime > 0
         /\ \E i \in 1..Len(Clips) :
              /\ ClipAt(i).id # c.id
              /\ ClipAt(i).track = c.track
              /\ ClipAt(i).startTime + ClipAt(i).duration = c.startTime
              /\ Len(undoStack) > 0
              /\ \E j \in 1..Len(Last(undoStack).clips) :
                   /\ Last(undoStack).clips[j].id = c.id
                   /\ Last(undoStack).clips[j].startTime + PxToTime(lastOp.deltaX)
                        # c.startTime

\* the clips a move of clipId onto track can snap to, in store order
SnapClips(clipId, track) ==
  SelectSeq(Clips, LAMBDA c : c.id # clipId /\ c.track = track)

\* the snap points in the order they are enumerated: start and end of each
\* of those clips, then the timeline start
EnumeratedPoint(clipId, track, k) ==
  LET others == SnapClips(clipId, track)
  IN  IF k = 2 * Len(others) + 1 THEN 0
      ELSE IF k % 2 = 1 THEN others[(k + 1) \div 2].startTime
      ELSE others[k \div 2].startTime + others[k \div 2].duration

\* the positions of the enumeration that are closest to r and within the threshold
ClosestPositions(clipId, track, r) ==
  LET n == 2 * Len(SnapClips(clipId, track)) + 1
      dist(k) == Abs(r - EnumeratedPoint(clipId, track, k))
  IN  {k \in 1..n : dist(k) < SNAP_THRESHOLD /\ \A m \in 1..n : dist(k) <= dist(m)}

\* the least element of a non-empty set of positions
FirstOf(S) == CHOOSE k \in S : \A m \in S : k <= m

CandidateTrack(originalTrack, dy) ==
  IF originalTrack = 0 /\ dy > TRACK_SWITCH_PX THEN 1
  ELSE IF originalTrack = 1 /\ dy < -TRACK_SWITCH_PX THEN 0
  ELSE originalTrack

\* a release of a move gesture that had no horizontal motion, on a clip that
\* is on the timeline
VerticalRelease ==
  /\ lastOp'.name = "moveUp"
  /\ lastOp'.deltaX = 0
  /\ HasClip(Clips, drag.clipId)

Others(cs, id) == SelectSeq(cs, LAMBDA c : c.id # id)

\* d is the largest startTime + duration of the clips, 0 when there are none
IsTotalDuration(d, cs) ==
  /\ \A i \in 1..Len(cs) : cs[i].startTime + cs[i].duration <= d
  /\ IF cs = << >> THEN d = 0
     ELSE \E i \in 1..Len(cs) : cs[i].startTime + cs[i].duration = d

\* C14: delete with a selected timeline clip removes exactly that clip, leaves
\* every other clip (startTime, track, trim values) as it was, recomputes the
\* total duration from the remaining clips and clears the timeline selection;
\* with no clip selected it changes nothing and pushes no undo snapshot.
C14_DeleteSelected ==
  [][ lastOp'.name = "delete" =>
        IF SelectedId = NoId
        THEN /\ ~lastOp'.ok
             /\ UNCHANGED <<timelineStore, playbackStore, undoStack, redoStack>>
        ELSE /\ lastOp'.ok
             /\ Clips' = Others(Clips, SelectedId)
             /\ HasClip(Clips, SelectedId) => Len(Clips') = Len(Clips) - 1
             /\ IsTotalDuration(timelineStore'.duration, Clips')
             /\ playbackStore'.selectedTimelineClipId = NoId
    ]_vars

\* the first of two adjacent clips was deleted: the second one is where it
\* was, away from the timeline start, and the selection is cleared
C14_Witness ==
  /\ lastOp = Op("delete", TRUE)
  /\ SelectedId = NoId
  /\ Len(Clips) = 1
  /\ Len(undoStack) > 0
  /\ Len(Last(undoStack).clips) = 2
  /\ Last(undoStack).clips[2] = ClipAt(1)
  /\ ClipAt(1).startTime = Last(undoStack).clips[1].startTime
                             + Last(undoStack).clips[1].duration
  /\ ClipAt(1).startTime > 0
  /\ timelineStore.duration = ClipAt(1).startTime + ClipAt(1).duration

\* C15: every user gesture that mutates the timeline (drop onto a track,
\* add-to-timeline button, trim, move, split, delete) pushes an undo snapshot
\* of the state it starts from before its first mutation of the timeline.
C15_SnapshotBeforeMutation ==
  [][ (lastOp'.name \in {"drop", "add", "split", "delete", "trimStart", "moveStart"}
         /\ lastOp'.ok)
        => /\ Len(undoStack') > 0
           /\ Last(undoStack') = Snapshot(timelineStore)
    ]_vars

\* the names under which the start of a mutating gesture is recorded
GestureNames == {"drop", "add", "split", "delete", "trimStart", "moveStart"}

\* C16: the start of any new mutating gesture clears the redo stack, so a
\* redo() right after it returns false and changes nothing.
C16_LinearHistory ==
  [][ /\ (lastOp'.name \in GestureNames /\ lastOp'.ok) => redoStack' = << >>
      /\ (lastOp'.name = "redo" /\ lastOp.name \in GestureNames /\ lastOp.ok)
           => /\ ~lastOp'.ok
              /\ UNCHANGED <<timelineStore, playbackStore, undoStack, redoStack>>
    ]_vars

\* C17: the undo stack never holds more than MAX_HISTORY (50) snapshots: a
\* gesture that saves the state with 50 stored evicts the oldest snapshot, and
\* the 50 most recent remain in order; with fewer stored nothing is evicted.
C17_BoundedHistory ==
  /\ [](Len(undoStack) <= MAX_HISTORY)
  /\ [][ (lastOp'.name \in GestureNames \ {"add"} /\ lastOp'.ok)
           => IF Len(undoStack) = MAX_HISTORY
              THEN /\ Len(undoStack') = MAX_HISTORY
                   /\ \A i \in 1..(MAX_HISTORY - 1) : undoStack'[i] = undoStack[i + 1]
                   /\ undoStack'[MAX_HISTORY] = Snapshot(timelineStore)
              ELSE undoStack' = Append(undoStack, Snapshot(timelineStore))
       ]_vars

\* a gesture began with 50 snapshots stored: the snapshot of the empty
\* timeline, the oldest, is gone and the stack is full
C17_Witness ==
  /\ lastOp.name \in GestureNames \ {"add"}
  /\ lastOp.ok
  /\ Len(undoStack) = MAX_HISTORY
  /\ Len(undoStack[1].clips) = 1
  /\ undoStack[MAX_HISTORY - 1] = StackAfterMoves(MAX_HISTORY - 1)[MAX_HISTORY]

\* C18: undo() on an empty undo stack and redo() on an empty redo stack return
\* false and change nothing: the timeline, the playhead, the selection and
\* both stacks are as before.
C18_EmptyHistoryNoOp ==
  [][ /\ (lastOp'.name = "undo" /\ Len(undoStack) = 0)
           => /\ ~lastOp'.ok
              /\ UNCHANGED <<timelineStore, playbackStore, undoStack, redoStack>>
      /\ (lastOp'.name = "redo" /\ Len(redoStack) = 0)
           => /\ ~lastOp'.ok
              /\ UNCHANGED <<timelineStore, playbackStore, undoStack, redoStack>>
    ]_vars

\* redo() was called with nothing to redo while there were clips on the
\* timeline, a selected clip and a snapshot on the undo stack
C18_Witness ==
  /\ lastOp = Op("redo", FALSE)
  /\ Len(redoStack) = 0
  /\ Len(undoStack) > 0
  /\ Len(Clips) > 0
  /\ HasClip(Clips, SelectedId)

\* the clip that drives the main video in the current state
ActiveClip == activeTimelineClip(timelineStore, playbackStore)

\* the Main-track clips that start at or after the end of clip c
LaterMainClips(c) ==
  {i \in 1..Len(Clips) : /\ ClipAt(i).track = 0
                         /\ ClipAt(i).startTime >= c.startTime + c.duration}

\* C19: when, during playback, an animation frame finds the source time at or
\* past the active clip's trimEnd: if a Main-track clip starts at or after the
\* active clip's end, the playhead jumps to the start of such a clip and
\* playback continues; if there is none, the video is paused, isPlaying is
\* false and no further frame is scheduled.
C19_EndOfClip ==
  [][ ( /\ lastOp'.name = "sync"
        /\ playbackStore.isPlaying
        /\ ActiveClip # NoClip
        /\ lastOp'.sourceTime >= ActiveClip.trimEnd )
      => IF LaterMainClips(ActiveClip) # {}
         THEN /\ \E i \in LaterMainClips(ActiveClip) :
                   playbackStore'.currentTime = ClipAt(i).startTime
              /\ playbackStore'.isPlaying
         ELSE /\ preview'.paused
              /\ ~playbackStore'.isPlaying
              /\ preview'.syncFrameId # "pending"
    ]_vars

GestureStarts == {"trimStart", "moveStart", "playheadStart"}
GestureHandlers ==
  {"trimMove", "trimUp", "moveMove", "moveUp", "playheadMove", "playheadUp"}
\* the ways a gesture ends: the release, or its abort by a window blur
GestureExits == {"trimUp", "moveUp", "playheadUp", "blur"}

\* C20: the document-level pointer handlers of a trim, move or playhead gesture
\* are registered when the gesture starts and are all removed on every exit
\* path, release or abort; a handler of a gesture that has ended never runs
\* again, and with no gesture in progress none is registered.
C20_ScopedListeners ==
  /\ [](drag = NoDrag => listeners = {})
  /\ [][ /\ (lastOp'.name \in GestureStarts /\ lastOp'.ok) => listeners' # {}
         /\ lastOp'.name \in GestureExits => listeners' = {}
         /\ lastOp.name \in GestureExits => lastOp'.name \notin GestureHandlers
       ]_vars

(* ------------------------------- C21 ----------------------------------- *)

\* C21: in every reachable state the playhead (playbackStore.currentTime) lies
\* in [0, totalDuration], whichever operation wrote it last and after
\* operations that shrink totalDuration.
C21_PlayheadClamped ==
  /\ playbackStore.currentTime >= 0
  /\ playbackStore.currentTime <= timelineStore.duration

(* ------------------------------- C22 ----------------------------------- *)

\* C22: the timeline selection and the media-library selection are mutually
\* exclusive. In every reachable state at most one of selectedTimelineClipId
\* and selectedClipId is set; selecting a library clip clears the timeline
\* selection, and selecting a timeline clip (by a click or by a split, which
\* selects the right half) leaves no library selection.
C22_ExclusiveSelection ==
  /\ [](\/ playbackStore.selectedClipId = None
        \/ playbackStore.selectedTimelineClipId = NoId)
  /\ [][/\ lastOp'.name = "selectClip"
           => /\ playbackStore'.selectedClipId # None
              /\ playbackStore'.selectedTimelineClipId = NoId
        /\ (lastOp'.name = "select" \/ (lastOp'.name = "split" /\ lastOp'.ok))
           => /\ playbackStore'.selectedTimelineClipId # NoId
              /\ playbackStore'.selectedClipId = None]_vars

\* a library clip was selected after a split had selected its right half
C22_Witness ==
  /\ lastOp.name = "selectClip"
  /\ nextId > 3
  /\ playbackStore.selectedClipId # None
  /\ playbackStore.selectedTimelineClipId = NoId

(* ------------------------------- C23 ----------------------------------- *)

\* the two clips a split has just created: the left half and the selected
\* right half
SplitHalfLeft == FindClip(Clips, SelectedId - 1)
SplitHalfRight == FindClip(Clips, SelectedId)

\* C23: a split is reversible. After splitting C at t the halves meet in the
\* source (left.trimEnd = right.trimStart) and on the timeline (left.startTime
\* + left.duration = right.startTime), their durations add up to C's, and
\* merging them gives back C's trimStart, trimEnd and startTime.
C23_SplitReversible ==
  [][ lastOp' = Op("split", TRUE) =>
        LET C == FindClip(Clips, SelectedId)
            left == SplitHalfLeft'
            right == SplitHalfRight'
        IN  /\ HasClip(Clips', left.id) /\ HasClip(Clips', right.id)
            /\ left.trimEnd = right.trimStart
            /\ left.startTime + left.duration = right.startTime
            /\ left.duration + right.duration = C.duration
            /\ left.trimStart = C.trimStart
            /\ right.trimEnd = C.trimEnd
            /\ left.startTime = C.startTime
    ]_vars

\* a clip trimmed at both ends and moved off 0 was split off-centre
C23_Witness ==
  /\ lastOp = Op("split", TRUE)
  /\ SplitHalfLeft.trimStart > 0
  /\ SplitHalfRight.trimEnd < SourceDuration[SplitHalfRight.clipId]
  /\ SplitHalfLeft.startTime > 0
  /\ SplitHalfLeft.duration # SplitHalfRight.duration

(* ------------------------------- C24 ----------------------------------- *)

\* C24: the cached duration of a clip never drifts. In every reachable state
\* the duration field of every timeline clip equals trimEnd - trimStart.
C24_DurationDerived ==
  \A i \in 1..Len(Clips) : ClipAt(i).duration = ClipAt(i).trimEnd - ClipAt(i).trimStart

\* a start-trim was committed that shortened the clip
C24_Witness ==
  /\ lastOp.name = "trimUp"
  /\ lastOp.side = "start"
  /\ \E i \in 1..Len(Clips) :
       /\ ClipAt(i).id = lastOp.clipId
       /\ ClipAt(i).trimStart > 0
       /\ ClipAt(i).duration < SourceDuration[ClipAt(i).clipId]

(* ------------------------------- C25 ----------------------------------- *)

\* C25: dropping a source clip of duration d at horizontal position x on
\* track k appends exactly one timeline clip with track k, startTime
\* max(0, x / zoom), trimStart 0 and trimEnd d, and leaves the clips already
\* there unchanged; a drop at x = 0 on the empty timeline, whose tracks are
\* drawn MIN_TIMELINE_DURATION wide, makes totalDuration d.
C25_DropAddsOneClip ==
  [][ \A s \in SourceIds, k \in Tracks, x \in WideDropXs :
        handleDrop(s, k, x) =>
          LET new == Clips'[Len(Clips')]
          IN  /\ Len(Clips') = Len(Clips) + 1
              /\ SubSeq(Clips', 1, Len(Clips)) = Clips
              /\ new.clipId = s
              /\ new.track = k
              /\ new.startTime = (IF x < 0 THEN 0 ELSE x \div zoom)
              /\ new.trimStart = 0
              /\ new.trimEnd = SourceDuration[s]
              /\ (Len(Clips) = 0 /\ x = 0 /\ k = 0)
                 => /\ timelineStore'.duration = SourceDuration[s]
                    /\ effectiveTimelineDuration = MIN_TIMELINE_DURATION
    ]_vars

\* a clip was dropped on Overlay at or left of the origin while a clip that
\* starts later was on the timeline
C25_Witness ==
  /\ lastOp = Op("drop", TRUE)
  /\ Len(Clips) = 2
  /\ ClipAt(2).track = 1
  /\ ClipAt(2).startTime = 0
  /\ ClipAt(1).startTime > 0

(* ------------------------------- C26 ----------------------------------- *)

\* C26: after the release of a trim or move gesture a single undo() restores
\* clips and totalDuration to what they were when the gesture began, whatever
\* keys (undo, redo, delete, split) were handled between the drag start and
\* the release. undo() is a function of the state the release leaves, so the
\* claim is stated on that state.
C26_UndoRestoresBaseline ==
  [][ lastOp'.name \in {"trimUp", "moveUp"} =>
        /\ Len(undoStack') > 0
        /\ LET restored == Restore(timelineStore', Last(undoStack'))
           IN  /\ restored.clips = drag.baseline.clips
               /\ restored.duration = drag.baseline.duration
    ]_vars

(* ------------------------------- C27 ----------------------------------- *)

\* C27: selectedTimelineClipId is always null or the id of a clip that is on
\* the timeline, after any sequence of select, split, delete, undo and redo.
C27_SelectionPresent ==
  SelectedId = NoId \/ HasClip(Clips, SelectedId)

(* ------------------------------- C28 ----------------------------------- *)

\* C28: sequential playback visits the Main-track clips in increasing
\* startTime order. The clip jumped to at the end of the active clip is the
\* Main-track clip with the smallest startTime at or after that end, whatever
\* the order of the clips in the store.
C28_PlaysInStartOrder ==
  [][ (lastOp'.name = "sync" /\ lastOp'.outcome = "jumped") =>
        /\ ActiveClip # NoClip
        /\ \E i \in LaterMainClips(ActiveClip) :
             playbackStore'.currentTime = ClipAt(i).startTime
        /\ \A i \in LaterMainClips(ActiveClip) :
             playbackStore'.currentTime <= ClipAt(i).startTime
    ]_vars

(* ------------------------------- C29 ----------------------------------- *)

\* C29: committing a start-trim leaves the right edge of the clip where it
\* was: startTime + (trimEnd - trimStart) after the release equals its value
\* when the gesture began, for every pointer displacement, clamped or not.
C29_RightEdgeFixed ==
  [][ ( /\ lastOp'.name = "trimUp"
        /\ lastOp'.side = "start"
        /\ HasClip(Clips', drag.clipId) )
      => LET before == drag.clip
             after == FindClip(Clips', drag.clipId)
         IN  after.startTime + (after.trimEnd - after.trimStart)
               = before.startTime + (before.trimEnd - before.trimStart)
    ]_vars

(* ------------------------------- C30 ----------------------------------- *)

\* C30: the Split button is enabled (canSplit) in exactly the states in which
\* splitTimelineClip performs a split, also with the playhead exactly
\* MIN_CLIP_DURATION from an edge of the selected clip: the S key and the
\* button accept the same states.
C30_CanSplitMatches ==
  canSplit(timelineStore, playbackStore) <=> SplitAccepts(timelineStore, playbackStore)

(* ------------------------------- C31 ----------------------------------- *)

\* C31: a trim or move gesture whose pointer displacement is zero at every
\* pointer-move and at release commits nothing new: the clip's startTime,
\* track, trimStart and trimEnd and the timeline's duration after the release
\* equal their values when the gesture began, whatever else is on the track.
C31_ZeroDeltaNoOp ==
  [][ ( /\ lastOp'.name \in {"trimUp", "moveUp"}
        /\ lastOp'.deltaX = 0
        /\ lastOp'.name = "moveUp" => lastOp'.deltaY = 0
        /\ HasClip(Clips', drag.clipId) )
      => LET before == FindClip(drag.baseline.clips, drag.clipId)
             after == FindClip(Clips', drag.clipId)
         IN  /\ after.startTime = before.startTime
             /\ after.track = before.track
             /\ after.trimStart = before.trimStart
             /\ after.trimEnd = before.trimEnd
             /\ timelineStore'.duration = drag.baseline.duration
    ]_vars

(* ------------------------------- C32 ----------------------------------- *)

\* C32: undo() restores the clips, the total duration and the playhead of the
\* popped snapshot: after the undo of a gesture the playhead (currentTime)
\* is where it was when the gesture's snapshot was taken.  The formula reads
\* that position from the snapshot, and is stated for the first gesture of a
\* session in which the two stores' playheads agreed when it began, so that
\* the snapshot's playhead is the playhead of that moment.
C32_UndoRestoresPlayhead ==
  [][ ( /\ lastOp.name \in {"trimUp", "moveUp"}
        /\ opCount = 1
        /\ lastOp' = Op("undo", TRUE) )
      => /\ Clips' = Last(undoStack).clips
         /\ timelineStore'.duration = Last(undoStack).duration
         /\ playbackStore'.currentTime = Last(undoStack).playhead
    ]_vars

(* ------------------------------- C33 ----------------------------------- *)

\* C33: after a successful split at time t the selected timeline clip is the
\* right half (a clip the split created, starting at t and ending where the
\* split clip ended, in the source and on the timeline), and the playhead is
\* at t.
C33_SplitSelectsRight ==
  [][ lastOp' = Op("split", TRUE) =>
        LET t == playbackStore.currentTime
            C == FindClip(Clips, SelectedId)
        IN  /\ playbackStore'.currentTime = t
            /\ HasClip(Clips', SelectedId')
            /\ ~HasClip(Clips, SelectedId')
            /\ LET right == FindClip(Clips', SelectedId')
               IN  /\ right.startTime = t
                   /\ right.trimEnd = C.trimEnd
                   /\ right.startTime + right.duration = C.startTime + C.duration
    ]_vars

\* a clip that does not start at 0 was split: the selected clip starts at
\* the playhead and another clip, the left half, ends there
C33_Witness ==
  /\ lastOp = Op("split", TRUE)
  /\ HasClip(Clips, SelectedId)
  /\ FindClip(Clips, SelectedId).startTime = playbackStore.currentTime
  /\ \E i \in 1..Len(Clips) :
       /\ ClipAt(i).id # SelectedId
       /\ ClipAt(i).startTime > 0
       /\ ClipAt(i).startTime + ClipAt(i).duration = playbackStore.currentTime

(* ------------------------------- C34 ----------------------------------- *)

\* C34: the release of a move gesture writes the candidate (startTime, track)
\* into the dragged clip as they are, also when the placement overlaps
\* another clip of the destination track; the clip's id, source, trimStart,
\* trimEnd and duration and every other clip stay as they were.
C34_MoveCommitFrame ==
  [][ lastOp'.name = "moveUp" =>
        /\ Len(Clips') = Len(Clips)
        /\ \A i \in 1..Len(Clips) :
             IF ClipAt(i).id = drag.clipId
             THEN Clips'[i] = [ClipAt(i) EXCEPT !.startTime = drag.finalStartTime,
                                                !.track = drag.finalTrack]
             ELSE Clips'[i] = ClipAt(i)
    ]_vars

\* a move was committed that left the moved clip overlapping another clip of
\* its track, at a start time other than the one it had
C34_Witness ==
  /\ lastOp.name = "moveUp"
  /\ HasClip(Clips, lastOp.clipId)
  /\ Len(undoStack) > 0
  /\ FindClip(Clips, lastOp.clipId)
       # FindClip(Last(undoStack).clips, lastOp.clipId)
  /\ LET moved == FindClip(Clips, lastOp.clipId)
     IN  \E i \in 1..Len(Clips) :
           /\ ClipAt(i).id # moved.id
           /\ ClipAt(i).track = moved.track
           /\ ClipAt(i).startTime < moved.startTime + moved.duration
           /\ moved.startTime < ClipAt(i).startTime + ClipAt(i).duration

(* ------------------------------- C35 ----------------------------------- *)

\* the clips of one track whose span [startTime, startTime + duration)
\* contains the playhead
UnderPlayhead(track) ==
  {i \in 1..Len(Clips) : /\ ClipAt(i).track = track
                          /\ ClipAt(i).startTime <= playbackStore.currentTime
                          /\ playbackStore.currentTime
                               < ClipAt(i).startTime + ClipAt(i).duration}

\* the timeline without the clips of one track
WithoutTrack(track) ==
  [timelineStore EXCEPT !.clips = SelectSeq(Clips, LAMBDA c : c.track # track)]

\* C35: while playing, the active main clip is a track-0 clip under the
\* playhead whenever there is one, and the overlay clip is a track-1 clip
\* under the playhead whenever there is one; the active main clip is never
\* a track-1 clip nor the overlay clip a track-0 clip, and each of them is
\* the same with the clips of the other track taken away.
C35_ActiveClipPerTrack ==
  LET main == activeTimelineClip(timelineStore, playbackStore)
      overlay == activeOverlayClip(timelineStore, playbackStore)
  IN  /\ (playbackStore.isPlaying /\ UnderPlayhead(0) # {})
           => \E i \in UnderPlayhead(0) : main = ClipAt(i)
      /\ (playbackStore.isPlaying /\ UnderPlayhead(1) # {})
           => \E i \in UnderPlayhead(1) : overlay = ClipAt(i)
      /\ main # NoClip => main.track = 0
      /\ overlay # NoClip => overlay.track = 1
      /\ activeTimelineClip(WithoutTrack(1), playbackStore) = main
      /\ activeOverlayClip(WithoutTrack(0), playbackStore) = overlay

\* playing with the playhead inside a Main clip and inside an Overlay clip
\* that comes before it in the store
C35_Witness ==
  /\ playbackStore.isPlaying
  /\ ~preview.paused
  /\ \E i \in UnderPlayhead(1), j \in UnderPlayhead(0) :
       /\ i < j
       /\ activeTimelineClip(timelineStore, playbackStore) = ClipAt(j)
       /\ activeOverlayClip(timelineStore, playbackStore) = ClipAt(i)

(* ------------------------------- C40 ----------------------------------- *)

\* C40: in every reachable state the undo stack and the redo stack together
\* hold at most MAX_HISTORY snapshots, so that the push of redo(), which
\* checks no capacity, never leaves more than MAX_HISTORY on the undo stack.
C40_StacksWithinCapacity ==
  Len(undoStack) + Len(redoStack) <= MAX_HISTORY

\* redo() has just pushed the snapshot that fills the undo stack
C40_Witness ==
  /\ lastOp = Op("redo", TRUE)
  /\ Len(undoStack) = MAX_HISTORY

(* ------------------------------- C39 ----------------------------------- *)

\* the timeline clips whose source is no longer in the media library
Orphaned == {i \in 1..Len(Clips) : ClipAt(i).clipId \notin clipsStore}

\* C39: a timeline clip whose source has been removed from the library is
\* tolerated. A mousedown on one of its trim handles changes nothing: no
\* snapshot is pushed, the redo stack is kept, no drag begins, no document
\* handler is registered and the timeline is as before. When such a clip is
\* the active clip the preview resolves no source for it and renders no
\* <video>.
C39_MissingSourceTolerated ==
  /\ [][ \A i \in Orphaned, side \in {"start", "end"} :
            startTrimDrag(ClipAt(i).id, side)
              => /\ UNCHANGED <<timelineStore, undoStack, redoStack, drag, ui,
                                listeners, playbackStore>>
                 /\ lastOp' = Op("trimStart", FALSE)
       ]_vars
  /\ [](LET active == activeTimelineClip(timelineStore, playbackStore)
        IN  (active # NoClip /\ active.clipId \notin clipsStore)
              => /\ displayClip(active, playbackStore, clipsStore) = None
                 /\ ~preview.bound
                 /\ preview.currentlyPlayingClipId = None)

\* a trim was attempted on the selected Main clip after its source was
\* removed, with a snapshot waiting on the redo stack
C39_Witness ==
  /\ lastOp = Op("trimStart", FALSE)
  /\ Len(redoStack) > 0
  /\ Len(undoStack) > 0
  /\ activeTimelineClip(timelineStore, playbackStore) # NoClip
  /\ activeTimelineClip(timelineStore, playbackStore).clipId \notin clipsStore

(* ------------------------------- C38 ----------------------------------- *)

\* C38: an animation frame of the sync loop writes the playhead and nothing
\* else of the edit model: the undo and redo stacks, the timeline clips, the
\* total duration and both selections are as before the frame, and isPlaying
\* changes only when the frame stops playback at the end of the content.
C38_SyncOutsideHistory ==
  [][ lastOp'.name = "sync" =>
        /\ UNCHANGED <<undoStack, redoStack, clipsStore>>
        /\ Clips' = Clips
        /\ timelineStore'.duration = timelineStore.duration
        /\ playbackStore'.selectedTimelineClipId = playbackStore.selectedTimelineClipId
        /\ playbackStore'.selectedClipId = playbackStore.selectedClipId
        /\ playbackStore'.isPlaying # playbackStore.isPlaying
             => /\ lastOp'.outcome = "stopped"
                /\ ~playbackStore'.isPlaying
    ]_vars

\* a frame has moved the playhead of a timeline with a selected clip and
\* snapshots on the undo stack
C38_Witness ==
  /\ lastOp.name = "sync"
  /\ lastOp.outcome = "synced"
  /\ playbackStore.selectedTimelineClipId # NoId
  /\ Len(undoStack) > 0
  /\ timelineStore.playhead > 0
  /\ timelineStore.playhead = playbackStore.currentTime

(* ------------------------------- C36 ----------------------------------- *)

\* the animation frames of sync() that are scheduled
Scheduled ==
  (IF preview.syncFrameId = "pending" THEN 1 ELSE 0) + preview.orphans

\* the step ended with the video paused by the user, by its own end or by
\* the sync loop at the end of the content
PauseStep ==
  \/ lastOp'.name = "onPause"
  \/ lastOp'.name = "togglePlay" /\ playbackStore.isPlaying /\ preview'.paused
  \/ lastOp'.name = "sync" /\ lastOp'.outcome = "stopped"

\* the browser runs every scheduled animation frame sooner or later: weak
\* fairness of sync and of lateSync, whose enabling conditions are that
\* syncFrameId holds a scheduled frame and that an orphaned frame exists
FramesRun ==
  /\ \/ []<>(preview.syncFrameId # "pending")
     \/ []<><<\E advance \in Advances : sync(advance)>>_vars
  /\ \/ []<>(preview.orphans = 0)
     \/ []<><<\E advance \in Advances : lateSync(advance)>>_vars

\* once the video is paused and no further play event arrives, the scheduled
\* frames run out
FramesRunOut ==
  FramesRun => ~<>[](/\ preview.paused
                     /\ Scheduled > 0
                     /\ lastOp.name \in {"sync", "onPause"})

\* C36: a frame of the sync loop that finds the video paused (or gone) writes
\* neither store and schedules no successor, and once the video has been
\* paused (user pause, end of the media, end of the content) at most one
\* frame is still scheduled, so that at most one more frame runs.
C36_LoopEnds ==
  /\ [][ (lastOp'.name = "sync" /\ (preview.paused \/ ~preview.bound))
           => /\ UNCHANGED <<timelineStore, playbackStore>>
              /\ Scheduled' = Scheduled - 1
       ]_vars
  /\ [][ PauseStep => Scheduled' <= 1 ]_vars

(* ------------------------------- C37 ----------------------------------- *)

\* C37: at most one frame of sync() is scheduled at any time, also after a
\* play event that starts the loop while a frame of an earlier loop is still
\* scheduled, and the stopSync() of a pause or of the end of the content
\* leaves none scheduled.
C37_OneFramePending ==
  /\ [](Scheduled <= 1)
  /\ [][ (lastOp'.name = "onPause"
            \/ (lastOp'.name = "sync" /\ lastOp'.outcome = "stopped"))
           => Scheduled' = 0
       ]_vars

====
